---- MODULE Spec2Model ----
(***************************************************************************)
(* opsiq-runtime: the Runner orchestration (application/runner.py), the    *)
(* primitive Registry (application/registry.py), the Databricks outputs    *)
(* repository (adapters/databricks/outputs_repo.py) and the job-status     *)
(* store (app/job_manager.py, app/main.py), as a state machine.            *)
(*                                                                         *)
(* One run is one execution of main._run_job_in_background: it calls       *)
(* Runner.run and then records the outcome in the JobManager.  Every SQL   *)
(* statement sent through DatabricksSqlClient.execute is one atomic step   *)
(* that either commits or raises after the client's retries are used up.   *)
(***************************************************************************)
EXTENDS Integers, Sequences, FiniteSets, Bags, TLC

(***************************************************************************)
(* Bounds of the model.                                                    *)
(***************************************************************************)
\* Largest number of input rows the inputs repository returns for a run.
MaxInputs == 2
\* Number of runs started in one behaviour (over all run slots).
MaxStarts == 2
\* Number of statements / port calls that fail in one behaviour.
MaxFaults == 1
\* Rows per write batch.  The code's BATCH_SIZE is 1000 (outputs_repo.py:22);
\* it is scaled down so that a write of MaxInputs rows spans several batches.
BatchSize == 1

\* The longest item list given to stable_rank.
MaxItems == 2

(***************************************************************************)
(* Values.                                                                 *)
(***************************************************************************)
TenantId == "t1"
SubjectType == "shopper"
ConfigVersion == "cfg1"

\* Run-registry status constants (plus ABSENT: no row for the key).
STATUS_STARTED == "STARTED"
STATUS_SUCCESS == "SUCCESS"
STATUS_FAILED == "FAILED"
STATUS_ABSENT == "ABSENT"
TerminalStatuses == {STATUS_SUCCESS, STATUS_FAILED}

\* Exception kinds that can be in flight in Runner.run.
NoError == "none"
RunCancelledError == "RunCancelledError"
PrimitiveVersionMismatch == "PrimitiveVersionMismatch"
UnknownPrimitiveError == "UnknownPrimitiveError"
ProvisioningError == "ProvisioningError"
ReadinessFailError == "RuntimeError"
ConfigError == "ConfigError"
FetchError == "FetchError"
EvaluatorError == "EvaluatorError"
StatementError == "StatementError"
PublishError == "PublishError"

\* Registry.__init__: the (primitive_name, primitive_version) pairs registered.
RegisteredEvaluators ==
    { <<"operational_risk", "1.0.0">>,
      <<"shopper_frequency_trend", "1.0.0">>,
      <<"shopper_health_classification", "1.0.0">>,
      <<"shopper_item_affinity_score", "1.0.0">>,
      <<"order_line_fulfillment_risk", "1.0.0">>,
      <<"order_fulfillment_risk", "1.0.0">>,
      <<"customer_order_impact_risk", "1.0.0">>,
      <<"shopper_weekly_ad_slate", "1.0.0">>,
      <<"shopper_coupon_offer_set", "1.0.0">> }

\* Registry._input_fetchers: the names that have a fetch method.
RegisteredFetchers == { p[1] : p \in RegisteredEvaluators }

\* The (primitive_name, primitive_version) pairs a RunRequest asks for in the
\* model: two registered primitives, a registered name under an unregistered
\* version, and a name registered under no version.
Requests ==
    { <<"operational_risk", "1.0.0">>,
      <<"shopper_frequency_trend", "1.0.0">>,
      <<"operational_risk", "2.0.0">>,
      <<"no_such_primitive", "1.0.0">> }

\* The run slots: each is one background worker with its own correlation id.
RunSlots == {"r1", "r2"}

\* What the evaluator does with an input row: a decision state, None
\* (sparse emission) or an exception.
DecisionStates == {"AT_RISK"}
EvalNone == "NONE"
EvalRaise == "RAISE"
EvalOutcomes == DecisionStates \cup {EvalNone, EvalRaise}

Subjects == 1..MaxInputs

\* readiness.overall_status, as far as the gate tells the values apart.
ReadinessStatuses == {"PASS", "FAIL"}

VARIABLES
    \* warehouse tables
    decision_table,      \* bag of decision rows
    evidence_table,      \* bag of evidence rows
    run_registry,        \* [<<correlation_id, primitive_name>> -> record]
    \* environment fixed for one behaviour
    canonical_inputs,    \* the rows the inputs repository returns
    use_merge,           \* settings.databricks_use_merge
    slots,               \* the run slots in use
    fault_budget,        \* how many statements / port calls may fail
    operator_cancels,    \* somebody calls the cancel endpoint
    enforce_readiness,   \* the Runner was built with readiness enforcement
    readiness_status,    \* overall_status the readiness service reports
    request,             \* [slot -> the (name, version) its RunRequest asks for]
    \* LockManager and JobManager
    lock_held,           \* the slots whose run holds its (tenant, primitive) lock
    jobs,                \* JobManager._jobs: [slot -> JobStatus]
    cancellation_flags,  \* JobManager._cancellation_flags: [slot -> BOOLEAN]
    \* Runner.run, per slot
    pc,                  \* position in _run_job_in_background / Runner.run
    ctx,                 \* the RunContext
    inputs_list,         \* inputs consumed by the loop
    results,             \* evaluator results, paired with inputs_list
    fetched,             \* the list returned by fetch_method(ctx)
    batch_start,         \* start offset of the batch being written
    exc,                 \* the exception in flight (NoError if none)
    outcome,             \* what Runner.run gave its caller
    \* history
    io,                  \* [slot -> the kinds of I/O the current run performed]
    rows_written,        \* [slot -> rows the current run inserted or updated]
    registered,          \* [slot -> the current run wrote its STARTED row]
    closed,              \* [slot -> the terminal status the run's own UPDATE wrote]
    clock,               \* logical time: the number of runs started
    started_at,          \* [slot -> the clock when the run started]
    accepted_at,         \* [slot -> the run's position when cancel_job returned True]
    faults,              \* failures injected so far
    snap,                \* tables (non-time fields) after the last successful run
    writers,             \* slots that wrote to the tables since snap was taken
    \* threads of the API process, statement by statement
    jm_lock,             \* holder of JobManager._lock ("none" when free)
    canceller,           \* the cancel endpoint's position inside cancel_job
    poller,              \* the status endpoint's position and the job it reads
    response,            \* the response the status endpoint is building
    summary,             \* [slot -> the summary Runner.run returned]
    client,              \* [slot -> the statement its database client is in]
    ranking,             \* the item lists given to stable_rank and its results
    policy,              \* an activation-policy function: arguments and result
    evaluation,          \* an evaluator: its input, config and result
    \* history of the current run's writes
    persisted            \* [slot -> evidence ids its decision rows reference,
                         \*          evidence ids of its evidence rows]

vars == << decision_table, evidence_table, run_registry, canonical_inputs,
           use_merge, slots, fault_budget, operator_cancels,
           enforce_readiness, readiness_status, request, lock_held, jobs, cancellation_flags, pc, ctx,
           inputs_list, results, fetched, batch_start, exc, outcome, io,
           rows_written, registered, closed, clock, started_at, faults, snap, writers,
           jm_lock, canceller, poller, response, summary, client, ranking,
           policy, evaluation, persisted, accepted_at >>

(***************************************************************************)
(* Values built by the evaluators and the outputs repository.              *)
(***************************************************************************)
\* RunContext.from_args for a request run in slot r: the slot is the
\* correlation id.
RunContext(r, req) ==
    [ tenant_id |-> TenantId, primitive_name |-> req[1],
      primitive_version |-> req[2], config_version |-> ConfigVersion,
      correlation_id |-> r ]

NoContext == RunContext("none", <<"none", "none">>)

\* One input row of the canonical table (CommonInput plus the facts the
\* evaluator decides on, abstracted to what the evaluator does with them).
InputRow(s, o) ==
    [ tenant_id |-> TenantId, subject_type |-> SubjectType, subject_id |-> s,
      as_of_ts |-> 1, config_version |-> ConfigVersion, facts |-> o ]

\* evidence_id = f"evidence-{input_row.subject_id}"
EvidenceId(input_row) == <<"evidence", input_row.subject_id>>

\* evaluator(input_row, config) when it does not raise: a result holding a
\* decision and its evidence set, or None (sparse emission).
NoneResult == [ none |-> TRUE ]

Evaluate(input_row, now) ==
    IF input_row.facts = EvalNone
    THEN NoneResult
    ELSE [ decision |-> [ state |-> input_row.facts,
                          evidence_refs |-> << EvidenceId(input_row) >>,
                          computed_at |-> now ],
           evidence_set |-> << [ evidence_id |-> EvidenceId(input_row),
                                 rule_ids |-> << input_row.facts >>,
                                 observed_at |-> now ] >> ]

\* ensure_version that accepts every pair.
EnsureVersionAcceptsAll(name, version) == NoError

\* Registry.ensure_version: raises PrimitiveVersionMismatch when the pair
\* is not registered.
EnsureVersion(name, version) ==
    IF <<name, version>> \notin RegisteredEvaluators
    THEN PrimitiveVersionMismatch ELSE NoError

\* Registry.get: raises UnknownPrimitiveError when the pair is not registered.
RegistryGet(name, version) ==
    IF <<name, version>> \notin RegisteredEvaluators
    THEN UnknownPrimitiveError ELSE NoError

\* Registry.get_input_fetch_method
GetInputFetchMethod(name) ==
    IF name \notin RegisteredFetchers THEN UnknownPrimitiveError ELSE NoError

\* Only the fetch method is looked up before the fetch.
ResolveFetcherOnly(c) == GetInputFetchMethod(c.primitive_name)

\* Runner.run lines 67-72: the first error of the three registry calls.
ResolveEvaluator(c) ==
    IF EnsureVersion(c.primitive_name, c.primitive_version) # NoError
    THEN EnsureVersion(c.primitive_name, c.primitive_version)
    ELSE IF RegistryGet(c.primitive_name, c.primitive_version) # NoError
    THEN RegistryGet(c.primitive_name, c.primitive_version)
    ELSE GetInputFetchMethod(c.primitive_name)

(***************************************************************************)
(* Tables are bags of rows: a function from the rows present to their      *)
(* number of copies.                                                       *)
(***************************************************************************)
NoRows == << >>

BagAdd(B, x) ==
    IF x \in DOMAIN B THEN [B EXCEPT ![x] = @ + 1] ELSE B @@ (x :> 1)

RECURSIVE SumCopies(_, _)
SumCopies(B, S) ==
    IF S = {} THEN 0
    ELSE LET t == CHOOSE t \in S : TRUE IN B[t] + SumCopies(B, S \ {t})

RowCount(B) == SumCopies(B, DOMAIN B)

SeqToSet(q) == { q[i] : i \in 1..Len(q) }

\* The natural key with computed_at added to it.
DecisionKeyWithTime(row) ==
    << row.tenant_id, row.subject_type, row.subject_id, row.primitive_name,
       row.primitive_version, row.as_of_ts, row.computed_at >>

\* The natural key of a decision row (the ON clause of the decision MERGE).
DecisionKey(row) ==
    << row.tenant_id, row.subject_type, row.subject_id, row.primitive_name,
       row.primitive_version, row.as_of_ts >>

\* The key of an evidence row (the ON clause of the evidence MERGE).
EvidenceKey(row) == << row.tenant_id, row.evidence_id >>

\* The VALUES row _write_decisions_merge builds for one (decision, input).
DecisionRow(c, decision, input_row, now) ==
    [ tenant_id |-> input_row.tenant_id, subject_type |-> input_row.subject_type,
      subject_id |-> input_row.subject_id, primitive_name |-> c.primitive_name,
      primitive_version |-> c.primitive_version, as_of_ts |-> input_row.as_of_ts,
      decision_state |-> decision.state, evidence_refs |-> decision.evidence_refs,
      correlation_id |-> c.correlation_id, computed_at |-> decision.computed_at,
      created_at |-> now, updated_at |-> now ]

\* The VALUES row _write_evidence_merge builds for one evidence record.
EvidenceRow(c, evidence, input_row, now) ==
    [ tenant_id |-> input_row.tenant_id, subject_type |-> input_row.subject_type,
      subject_id |-> input_row.subject_id, primitive_name |-> c.primitive_name,
      primitive_version |-> c.primitive_version, as_of_ts |-> input_row.as_of_ts,
      evidence_id |-> evidence.evidence_id, rule_ids |-> evidence.rule_ids,
      observed_at |-> evidence.observed_at, correlation_id |-> c.correlation_id,
      created_at |-> now, updated_at |-> now ]

\* The keys of a table's rows and of a statement's source rows.
DecisionKeysOf(target) == [ t \in DOMAIN target |-> DecisionKey(t) ]

EvidenceKeysOf(target) == [ t \in DOMAIN target |-> EvidenceKey(t) ]

DecisionKeys(source) == [ i \in 1..Len(source) |-> DecisionKey(source[i]) ]

EvidenceKeys(source) == [ i \in 1..Len(source) |-> EvidenceKey(source[i]) ]

\* MERGE INTO target USING source ON key.  WHEN MATCHED: a target row whose
\* key is k takes the columns of the source row with that key (created_at
\* is not in the UPDATE SET list).
MergeMatched(t, k, source, source_keys) ==
    LET m == { i \in 1..Len(source) : source_keys[i] = k }
    IN  IF m = {} THEN t
        ELSE [ source[CHOOSE i \in m : TRUE] EXCEPT !.created_at = t.created_at ]

\* WHEN NOT MATCHED: a source row whose key no target row has is inserted.
RECURSIVE InsertNotMatched(_, _, _, _)
InsertNotMatched(B, target_keys, source, source_keys) ==
    IF source = << >> THEN B
    ELSE InsertNotMatched(IF Head(source_keys) \in target_keys
                          THEN B ELSE BagAdd(B, Head(source)),
                          target_keys, Tail(source), Tail(source_keys))

Merge(target, keys_of, source, source_keys) ==
    LET image == { MergeMatched(t, keys_of[t], source, source_keys) : t \in DOMAIN target }
        updated == [ x \in image |->
                       SumCopies(target,
                           { t \in DOMAIN target :
                               MergeMatched(t, keys_of[t], source, source_keys) = x }) ]
    IN  InsertNotMatched(updated, { keys_of[t] : t \in DOMAIN target }, source,
                         source_keys)

\* The decision write as a plain INSERT INTO ... VALUES, with no ON clause.
InsertDecisions(target, source) ==
    InsertNotMatched(target, {}, source, DecisionKeys(source))

MergeDecisions(target, source) ==
    Merge(target, DecisionKeysOf(target), source, DecisionKeys(source))

MergeEvidence(target, source) ==
    Merge(target, EvidenceKeysOf(target), source, EvidenceKeys(source))

\* DELETE FROM table WHERE (key = k1) OR (key = k2) ...
DeleteKeys(target, keys_of, keys) ==
    LET keep == { t \in DOMAIN target : keys_of[t] \notin keys }
    IN  [ t \in keep |-> target[t] ]

DeleteDecisions(target, source) ==
    DeleteKeys(target, DecisionKeysOf(target), SeqToSet(DecisionKeys(source)))

DeleteEvidence(target, source) ==
    DeleteKeys(target, EvidenceKeysOf(target), SeqToSet(EvidenceKeys(source)))

\* A table without its time fields, as a bag.
TimeFields == {"computed_at", "observed_at", "created_at", "updated_at"}

StripTime(row) == [ f \in (DOMAIN row) \ TimeFields |-> row[f] ]

NonTime(B) ==
    [ x \in { StripTime(t) : t \in DOMAIN B } |->
        SumCopies(B, { t \in DOMAIN B : StripTime(t) = x }) ]

(***************************************************************************)
(* Initial state.                                                          *)
(***************************************************************************)
\* The lists the inputs repository can return: one row per subject (the
\* fetch methods keep the first row of each subject_id), subjects in order.
InputLists ==
    UNION { { [ i \in 1..n |-> InputRow(i, f[i]) ] : f \in [1..n -> EvalOutcomes] }
            : n \in 0..MaxInputs }

RegistryKeys == RunSlots \X { q[1] : q \in Requests }

NoJob == [ status |-> "absent", has_completed_at |-> FALSE,
           has_result |-> FALSE, error |-> NoError ]

\* A request thread that is in no JobManager call.
NoCaller == [ at |-> "idle", job |-> "r1" ]

\* A domain function before it is given its arguments.
NoCallMade == [ done |-> FALSE ]

\* stable_rank not called.
NoRanking == [ items |-> << >>, reordered |-> << >>, ranked |-> << >>,
              ranked_reordered |-> << >>, calls |-> 0 ]

\* The database client between two statements: no attempt made, no wait.
NoCall == [ attempt |-> 0, slept |-> << >>, last_exception |-> 0 ]

\* No summary: Runner.run has not returned.
NoSummary == [ returned |-> FALSE, count |-> 0, evaluated_count |-> 0 ]

\* A run that has written no row yet.
NothingPersisted == [ refs |-> {}, evidence |-> {} ]

NoSnap == [ valid |-> FALSE, ctx |-> NoContext,
            decisions |-> NoRows, evidence |-> NoRows ]

\* No cancel_job call has returned True for the job: the run's position
\* and the number of inputs its loop had taken when one does.
NotAccepted == [ pc |-> "none", checked |-> 0 ]

InitCommon ==
    /\ decision_table = NoRows
    /\ accepted_at = [ r \in RunSlots |-> NotAccepted ]
    /\ evidence_table = NoRows
    /\ run_registry = [ k \in RegistryKeys |->
                          [ status |-> STATUS_ABSENT, error_type |-> NoError ] ]
    /\ canonical_inputs \in InputLists
    /\ use_merge \in BOOLEAN
    /\ lock_held = {}
    /\ jobs = [ r \in RunSlots |-> NoJob ]
    /\ cancellation_flags = [ r \in RunSlots |-> FALSE ]
    /\ pc = [ r \in RunSlots |-> "idle" ]
    /\ ctx = [ r \in RunSlots |-> NoContext ]
    /\ inputs_list = [ r \in RunSlots |-> << >> ]
    /\ results = [ r \in RunSlots |-> << >> ]
    /\ fetched = [ r \in RunSlots |-> << >> ]
    /\ batch_start = [ r \in RunSlots |-> 0 ]
    /\ exc = [ r \in RunSlots |-> NoError ]
    /\ outcome = [ r \in RunSlots |-> "none" ]
    /\ io = [ r \in RunSlots |-> {} ]
    /\ rows_written = [ r \in RunSlots |-> 0 ]
    /\ registered = [ r \in RunSlots |-> FALSE ]
    /\ closed = [ r \in RunSlots |-> "none" ]
    /\ clock = 0
    /\ started_at = [ r \in RunSlots |-> 0 ]
    /\ faults = 0
    /\ snap = NoSnap
    /\ writers = {}
    /\ jm_lock = "none"
    /\ canceller = NoCaller
    /\ poller = NoCaller
    /\ response = NoJob
    /\ persisted = [ r \in RunSlots |-> NothingPersisted ]
    /\ summary = [ r \in RunSlots |-> NoSummary ]
    /\ client = [ r \in RunSlots |-> NoCall ]

\* One worker that runs its request again and again: up to MaxFaults calls
\* fail, the operator may cancel, readiness may be enforced.
Init ==
    /\ InitCommon
    /\ ranking = NoRanking
    /\ policy = NoCallMade
    /\ evaluation = NoCallMade
    /\ slots = {"r1"}
    /\ request \in [RunSlots -> Requests]
    /\ request["r2"] = request["r1"]
    /\ fault_budget = MaxFaults
    /\ operator_cancels = TRUE
    /\ enforce_readiness \in BOOLEAN
    /\ readiness_status \in ReadinessStatuses
    /\ ~enforce_readiness => readiness_status = "PASS"

\* Two workers, each taking one request for a registered primitive, whose
\* runs overlap; no call fails and nobody cancels.
InitConcurrent ==
    /\ InitCommon
    /\ ranking = NoRanking
    /\ policy = NoCallMade
    /\ evaluation = NoCallMade
    /\ slots = RunSlots
    /\ request \in [RunSlots -> Requests \cap RegisteredEvaluators]
    /\ fault_budget = 0
    /\ operator_cancels = FALSE
    /\ enforce_readiness = FALSE
    /\ readiness_status = "PASS"

(***************************************************************************)
(* Frames.                                                                 *)
(***************************************************************************)
Tables == << decision_table, evidence_table >>
Environment == << canonical_inputs, use_merge, slots, fault_budget,
                 operator_cancels, enforce_readiness, readiness_status,
                 request >>
JobStore == << jobs, cancellation_flags >>
JobAccess == << jm_lock, canceller, poller, response >>
PureCalls == << policy, evaluation >>
Locals == << ctx, inputs_list, results, fetched, batch_start >>
History == << clock, started_at, snap >>

CanFail == faults < fault_budget

Goto(r, label) == pc' = [pc EXCEPT ![r] = label]

Raise(r, e, label) ==
    /\ exc' = [exc EXCEPT ![r] = e]
    /\ pc' = [pc EXCEPT ![r] = label]

DidIO(r, kind) == io' = [io EXCEPT ![r] = @ \cup {kind}]

(***************************************************************************)
(* main.run_primitive: register the job and hand the run to a worker.      *)
(***************************************************************************)
\* A worker that is alone takes its request again once the job is finished
\* (a retry under the same correlation id); of two workers each takes one.
RunPrimitive(r) ==
    /\ \/ pc[r] = "idle"
       \/ pc[r] = "finished" /\ slots = {r}
    /\ clock < MaxStarts
    /\ jobs' = [jobs EXCEPT ![r] =
                  [ status |-> "running", has_completed_at |-> FALSE,
                    has_result |-> FALSE, error |-> NoError ]]
    /\ cancellation_flags' = [cancellation_flags EXCEPT ![r] = FALSE]
    /\ ctx' = [ctx EXCEPT ![r] = RunContext(r, request[r])]
    /\ inputs_list' = [inputs_list EXCEPT ![r] = << >>]
    /\ results' = [results EXCEPT ![r] = << >>]
    /\ fetched' = [fetched EXCEPT ![r] = << >>]
    /\ batch_start' = [batch_start EXCEPT ![r] = 0]
    /\ exc' = [exc EXCEPT ![r] = NoError]
    /\ outcome' = [outcome EXCEPT ![r] = "none"]
    /\ io' = [io EXCEPT ![r] = {}]
    /\ rows_written' = [rows_written EXCEPT ![r] = 0]
    /\ registered' = [registered EXCEPT ![r] = FALSE]
    /\ closed' = [closed EXCEPT ![r] = "none"]
    /\ clock' = clock + 1
    /\ started_at' = [started_at EXCEPT ![r] = clock + 1]
    /\ pc' = [pc EXCEPT ![r] = "acquire"]
    /\ persisted' = [persisted EXCEPT ![r] = NothingPersisted]
    /\ summary' = [summary EXCEPT ![r] = NoSummary]
    /\ client' = [client EXCEPT ![r] = NoCall]
    /\ accepted_at' = [accepted_at EXCEPT ![r] = NotAccepted]
    /\ UNCHANGED << Tables, run_registry, Environment, JobAccess, PureCalls, ranking, lock_held,
                    faults, snap, writers >>

(***************************************************************************)
(* JobManager.cancel_job, the call that returns True.                      *)
(***************************************************************************)
CancelJob(r) ==
    /\ operator_cancels
    /\ jobs[r].status = "running"
    /\ cancellation_flags' = [cancellation_flags EXCEPT ![r] = TRUE]
    /\ jobs' = [jobs EXCEPT ![r].status = "cancelled",
                             ![r].has_completed_at = TRUE]
    /\ accepted_at' = [accepted_at EXCEPT ![r] =
                          [ pc |-> pc[r], checked |-> Len(inputs_list[r]) ]]
    /\ UNCHANGED << Tables, run_registry, Environment, JobAccess, PureCalls, ranking, client, summary, persisted, lock_held, pc, Locals,
                    exc, outcome, io, rows_written, registered, closed, clock,
                    started_at, snap, faults, writers >>

\* A Runner whose cancellation_check never reports a cancellation.
NeverCancelled(r) == FALSE

\* JobManager.is_cancelled, the Runner's cancellation_check.
IsCancelled(r) == cancellation_flags[r]

(***************************************************************************)
(* Runner.run, before the try block (lines 46-64).                         *)
(***************************************************************************)
RunnerFrame ==
    UNCHANGED << Tables, Environment, JobAccess, PureCalls, accepted_at, ranking, client, summary, persisted, JobStore, Locals, outcome,
                 rows_written, History, writers >>

\* self.lock_manager.acquire(ctx)
AcquireLock(r) ==
    /\ pc[r] = "acquire"
    /\ lock_held' = lock_held \cup {r}
    /\ Goto(r, "readiness")
    /\ UNCHANGED << run_registry, exc, io, registered, closed, faults >>
    /\ RunnerFrame

\* An exception that leaves Runner.run outside its try block: neither the
\* except clauses nor the finally clause run.
PropagateOutsideTry(r, e) ==
    /\ exc' = [exc EXCEPT ![r] = e]
    /\ outcome' = [outcome EXCEPT ![r] = "raised"]
    /\ pc' = [pc EXCEPT ![r] = "exit"]

\* The readiness gate (_check_pack_readiness): skipped unless enforcement is
\* configured.  A verdict other than FAIL lets the run go on.  On FAIL the
\* gate publishes a readiness_failed event and raises RuntimeError.  Any
\* other exception inside the gate is logged and the run goes on: an error
\* of the pack lookup or of the readiness calculation, and also an error of
\* the event publisher on the FAIL path.
CheckPackReadiness(r) ==
    /\ pc[r] = "readiness"
    /\ \/ /\ ~enforce_readiness
          /\ Goto(r, "config")
          /\ UNCHANGED << exc, io, faults, outcome >>
       \/ /\ enforce_readiness
          /\ readiness_status # "FAIL"
          /\ DidIO(r, "readiness")
          /\ Goto(r, "config")
          /\ UNCHANGED << exc, faults, outcome >>
       \/ /\ enforce_readiness
          /\ CanFail
          /\ faults' = faults + 1
          /\ DidIO(r, "readiness")
          /\ Goto(r, "config")
          /\ UNCHANGED << exc, outcome >>
       \/ /\ enforce_readiness
          /\ readiness_status = "FAIL"
          /\ io' = [io EXCEPT ![r] = @ \cup {"readiness", "readiness_event"}]
          /\ PropagateOutsideTry(r, ReadinessFailError)
          /\ UNCHANGED faults
       \/ /\ enforce_readiness
          /\ readiness_status = "FAIL"
          /\ CanFail
          /\ faults' = faults + 1
          /\ io' = [io EXCEPT ![r] = @ \cup {"readiness", "readiness_event"}]
          /\ Goto(r, "config")
          /\ UNCHANGED << exc, outcome >>
    /\ UNCHANGED << Tables, Environment, JobAccess, PureCalls, accepted_at, ranking, client, summary, persisted, JobStore, Locals, rows_written,
                    History, writers, run_registry, lock_held, registered, closed >>

\* config = self.config_provider.get_config(...)
GetConfig(r) ==
    /\ pc[r] = "config"
    /\ DidIO(r, "config")
    /\ \/ /\ Goto(r, "reg_started")
          /\ UNCHANGED << exc, faults, outcome >>
       \/ /\ CanFail
          /\ faults' = faults + 1
          /\ PropagateOutsideTry(r, ConfigError)
    /\ UNCHANGED << Tables, Environment, JobAccess, PureCalls, accepted_at, ranking, client, summary, persisted, JobStore, Locals, rows_written,
                    History, writers, run_registry, lock_held, registered, closed >>

RegistryKey(c) == << c.correlation_id, c.primitive_name >>

\* The MERGE of register_run_started: a matched row keeps its error columns.
StartedRow(old) ==
    IF old.status = STATUS_ABSENT
    THEN [ status |-> STATUS_STARTED, error_type |-> NoError ]
    ELSE [ old EXCEPT !.status = STATUS_STARTED ]

\* outputs_repo.register_run_started: _validate_table is called outside the
\* method's try block, so its ProvisioningError leaves the method; a failure
\* of the MERGE itself is logged and swallowed.
RegisterRunStarted(r) ==
    /\ pc[r] = "reg_started"
    /\ DidIO(r, "registry")
    /\ \/ /\ run_registry' = [run_registry EXCEPT ![RegistryKey(ctx[r])] = StartedRow(@)]
          /\ registered' = [registered EXCEPT ![r] = TRUE]
          /\ Goto(r, "resolve")
          /\ UNCHANGED << exc, faults, outcome >>
       \/ /\ CanFail
          /\ faults' = faults + 1
          /\ Goto(r, "resolve")
          /\ UNCHANGED << run_registry, registered, exc, outcome >>
       \/ /\ CanFail
          /\ faults' = faults + 1
          /\ PropagateOutsideTry(r, ProvisioningError)
          /\ UNCHANGED << run_registry, registered >>
    /\ UNCHANGED << Tables, Environment, JobAccess, PureCalls, accepted_at, ranking, client, summary, persisted, JobStore, Locals, rows_written,
                    History, writers, lock_held, closed >>

(***************************************************************************)
(* Runner.run, the try block (lines 66-135).                               *)
(***************************************************************************)
\* ensure_version, get, get_input_fetch_method
ResolvePrimitive(r) ==
    /\ pc[r] = "resolve"
    /\ IF ResolveEvaluator(ctx[r]) # NoError
       THEN Raise(r, ResolveEvaluator(ctx[r]), "handler")
       ELSE Goto(r, "fetch") /\ UNCHANGED exc
    /\ UNCHANGED << run_registry, lock_held, io, registered, closed, faults >>
    /\ RunnerFrame

\* fetch_method(ctx): the repository returns the whole list, or raises.
FetchInputs(r) ==
    /\ pc[r] = "fetch"
    /\ DidIO(r, "fetch")
    /\ \/ /\ fetched' = [fetched EXCEPT ![r] = canonical_inputs]
          /\ Goto(r, "loop")
          /\ UNCHANGED << exc, faults >>
       \/ /\ CanFail
          /\ faults' = faults + 1
          /\ Raise(r, FetchError, "handler")
          /\ UNCHANGED fetched
    /\ UNCHANGED << Tables, Environment, JobAccess, PureCalls, accepted_at, ranking, client, summary, persisted, JobStore, ctx, inputs_list, results,
                    batch_start, outcome, rows_written, History, writers,
                    run_registry, lock_held, registered, closed >>

\* The loop with a per-input skip: an input whose evaluation raises is
\* treated as giving no result.
EvaluateNextSkip(r) ==
    /\ pc[r] = "loop"
    /\ LET k == Len(inputs_list[r]) + 1
       IN  IF k > Len(fetched[r])
           THEN /\ Goto(r, "write_decisions")
                /\ UNCHANGED << exc, inputs_list, results >>
           ELSE IF IsCancelled(r)
           THEN /\ Raise(r, RunCancelledError, "handler")
                /\ UNCHANGED << inputs_list, results >>
           ELSE /\ inputs_list' = [inputs_list EXCEPT ![r] = Append(@, fetched[r][k])]
                /\ results' = [results EXCEPT ![r] =
                       Append(@, IF fetched[r][k].facts = EvalRaise THEN NoneResult
                                 ELSE Evaluate(fetched[r][k], started_at[r]))]
                /\ UNCHANGED << pc, exc >>
    /\ UNCHANGED << Tables, Environment, JobAccess, PureCalls, accepted_at, ranking, client, summary, persisted, JobStore, ctx, fetched, batch_start,
                    outcome, rows_written, History, writers, run_registry,
                    lock_held, io, registered, closed, faults >>

\* One iteration of the loop over the fetched inputs: the cancellation
\* check, then the append of the input and the call of the evaluator.
EvaluateNext(r) ==
    /\ pc[r] = "loop"
    /\ LET k == Len(inputs_list[r]) + 1
       IN  IF k > Len(fetched[r])
           THEN /\ Goto(r, "write_decisions")
                /\ UNCHANGED << exc, inputs_list, results >>
           ELSE IF IsCancelled(r)
           THEN /\ Raise(r, RunCancelledError, "handler")
                /\ UNCHANGED << inputs_list, results >>
           ELSE /\ inputs_list' = [inputs_list EXCEPT ![r] = Append(@, fetched[r][k])]
                /\ IF fetched[r][k].facts = EvalRaise
                   THEN /\ Raise(r, EvaluatorError, "handler")
                        /\ UNCHANGED results
                   ELSE /\ results' = [results EXCEPT ![r] =
                              Append(@, Evaluate(fetched[r][k], started_at[r]))]
                        /\ UNCHANGED << pc, exc >>
    /\ UNCHANGED << Tables, Environment, JobAccess, PureCalls, accepted_at, ranking, client, summary, persisted, JobStore, ctx, fetched, batch_start,
                    outcome, rows_written, History, writers, run_registry,
                    lock_held, io, registered, closed, faults >>

\* The sparse-emission filter: the (input, result) pairs whose result is
\* not None, in order.
RECURSIVE FilteredPairs(_, _)
FilteredPairs(ins, res) ==
    IF ins = << >> \/ res = << >> THEN << >>
    ELSE IF Head(res) = NoneResult
    THEN FilteredPairs(Tail(ins), Tail(res))
    ELSE << << Head(ins), Head(res) >> >> \o FilteredPairs(Tail(ins), Tail(res))

\* The inputs without the filter: inputs_list as it left the loop.
UnfilteredInputs(r) == inputs_list[r]

FilteredInputs(r) ==
    LET fp == FilteredPairs(inputs_list[r], results[r])
    IN  [ i \in 1..Len(fp) |-> fp[i][1] ]

FilteredResults(r) ==
    LET fp == FilteredPairs(inputs_list[r], results[r])
    IN  [ i \in 1..Len(fp) |-> fp[i][2] ]

Decisions(r) == [ i \in 1..Len(FilteredResults(r)) |-> FilteredResults(r)[i].decision ]

EvidenceSets(r) == [ i \in 1..Len(FilteredResults(r)) |-> FilteredResults(r)[i].evidence_set ]

\* The source rows of the decision batch that starts at batch_start.
DecisionBatch(r) ==
    LET lo == batch_start[r] + 1
        hi == IF batch_start[r] + BatchSize < Len(Decisions(r))
              THEN batch_start[r] + BatchSize ELSE Len(Decisions(r))
    IN  [ i \in 1..(hi - lo + 1) |->
            DecisionRow(ctx[r], Decisions(r)[lo + i - 1],
                        FilteredInputs(r)[lo + i - 1], started_at[r]) ]

\* write_evidence flattens the evidence sets into (evidence, input) records.
RECURSIVE Flatten(_, _)
Flatten(sets, ins) ==
    IF sets = << >> THEN << >>
    ELSE [ j \in 1..Len(Head(sets)) |-> << Head(sets)[j], Head(ins) >> ]
         \o Flatten(Tail(sets), Tail(ins))

EvidenceRecords(r) == Flatten(EvidenceSets(r), FilteredInputs(r))

EvidenceBatch(r) ==
    LET recs == EvidenceRecords(r)
        lo == batch_start[r] + 1
        hi == IF batch_start[r] + BatchSize < Len(recs)
              THEN batch_start[r] + BatchSize ELSE Len(recs)
    IN  [ i \in 1..(hi - lo + 1) |->
            EvidenceRow(ctx[r], recs[lo + i - 1][1], recs[lo + i - 1][2],
                        started_at[r]) ]

WriteFrame ==
    UNCHANGED << Environment, JobAccess, PureCalls, accepted_at, ranking, summary, JobStore, ctx, inputs_list,
                 results, fetched,
                 outcome, History, run_registry, lock_held, registered, closed >>

\* _retry_on_error(operation, max_retries = 3, initial_delay = 1.0)
max_retries == 3

initial_delay == 1

\* The wait after every failed attempt is initial_delay.
RetryDelayConstant(attempt) == initial_delay

\* delay = initial_delay * (2**attempt), attempt counted from 0
RetryDelay(attempt) == initial_delay * 2^attempt

\* One pass of the for loop in which operation() raises: the exception is
\* kept, and the client sleeps unless this was the last attempt.
FailedAttempt(call) ==
    [ attempt |-> call.attempt + 1,
      slept |-> IF call.attempt < max_retries - 1
                THEN Append(call.slept, RetryDelay(call.attempt))
                ELSE call.slept,
      last_exception |-> call.attempt + 1 ]

\* Every remaining attempt raises, up to the one that raises to the caller.
RECURSIVE RetryUntilRaise(_)
RetryUntilRaise(call) ==
    IF call.attempt >= max_retries - 1 THEN FailedAttempt(call)
    ELSE RetryUntilRaise(FailedAttempt(call))

\* The positions of Runner.run at which the client is executing a statement.
StatementPcs == {"decisions_delete", "decisions_merge",
                 "evidence_delete", "evidence_merge"}

\* _retry_on_error: an attempt other than the last raises, the client sleeps
\* and the loop goes on.  Nothing outside the client changes.
ClientRetry(r) ==
    /\ pc[r] \in StatementPcs
    /\ client[r].attempt < max_retries - 1
    /\ client' = [client EXCEPT ![r] = FailedAttempt(@)]
    /\ UNCHANGED << Tables, run_registry, Environment, JobAccess, PureCalls, accepted_at, ranking, summary,
                    persisted, JobStore, lock_held, pc, Locals, exc, outcome,
                    io, rows_written, registered, closed, History, faults,
                    writers >>

\* operation() returns: _retry_on_error returns at once.
StatementDone(r) == client' = [client EXCEPT ![r] = NoCall]

\* An execute() that fails after the client's retries: the error is logged
\* and raised again, and Runner.run's except clause takes it.
StatementFails(r) ==
    /\ CanFail
    /\ faults' = faults + 1
    /\ client' = [client EXCEPT ![r] = RetryUntilRaise(@)]
    /\ Raise(r, StatementError, "handler")

\* write_decisions up to its batch loop: the length check, _validate_table.
WriteDecisions(r) ==
    /\ pc[r] = "write_decisions"
    /\ DidIO(r, "write")
    /\ \/ /\ batch_start' = [batch_start EXCEPT ![r] = 0]
          /\ Goto(r, IF Len(Decisions(r)) = 0 THEN "write_evidence"
                     ELSE IF use_merge THEN "decisions_merge" ELSE "decisions_delete")
          /\ UNCHANGED << exc, faults >>
       \/ /\ CanFail
          /\ faults' = faults + 1
          /\ Raise(r, ProvisioningError, "handler")
          /\ UNCHANGED batch_start
    /\ UNCHANGED << Tables, Environment, JobAccess, PureCalls, accepted_at, ranking, client, summary, persisted, JobStore, ctx, inputs_list, results,
                    fetched, outcome, rows_written, History, writers,
                    run_registry, lock_held, registered, closed >>

\* _write_decisions_delete_insert, the DELETE of the batch's keys.
DecisionsDelete(r) ==
    /\ pc[r] = "decisions_delete"
    /\ \/ /\ decision_table' = DeleteDecisions(decision_table, DecisionBatch(r))
          /\ StatementDone(r)
          /\ writers' = writers \cup {r}
          /\ Goto(r, "decisions_merge")
          /\ UNCHANGED << exc, faults >>
       \/ /\ StatementFails(r)
          /\ UNCHANGED << decision_table, writers >>
    /\ UNCHANGED << evidence_table, batch_start, rows_written, io, persisted >>
    /\ WriteFrame

\* _write_decisions_merge for one batch, then the next batch or the end of
\* write_decisions.
DecisionsMerge(r) ==
    /\ pc[r] = "decisions_merge"
    /\ \/ /\ decision_table' = MergeDecisions(decision_table, DecisionBatch(r))
          /\ StatementDone(r)
          /\ writers' = writers \cup {r}
          /\ rows_written' = [rows_written EXCEPT ![r] = @ + Len(DecisionBatch(r))]
          /\ persisted' = [persisted EXCEPT ![r].refs = @ \cup
                 UNION { SeqToSet(DecisionBatch(r)[i].evidence_refs) :
                         i \in 1..Len(DecisionBatch(r)) }]
          /\ batch_start' = [batch_start EXCEPT ![r] = @ + BatchSize]
          /\ Goto(r, IF batch_start[r] + BatchSize >= Len(Decisions(r))
                     THEN "write_evidence"
                     ELSE IF use_merge THEN "decisions_merge" ELSE "decisions_delete")
          /\ UNCHANGED << exc, faults >>
       \/ /\ StatementFails(r)
          /\ UNCHANGED << decision_table, writers, rows_written, batch_start,
                          persisted >>
    /\ UNCHANGED << evidence_table, io >>
    /\ WriteFrame

\* Runner.run without its write_evidence call.
WriteEvidenceNotCalled(r) ==
    /\ pc[r] = "write_evidence"
    /\ batch_start' = [batch_start EXCEPT ![r] = 0]
    /\ Goto(r, "reg_completed")
    /\ UNCHANGED << exc, faults >>
    /\ UNCHANGED << Tables, Environment, JobAccess, PureCalls, accepted_at, ranking, client, summary, persisted, JobStore, ctx,
                    inputs_list, results, fetched, outcome, rows_written,
                    History, writers, run_registry, lock_held, registered,
                    closed, io >>

\* write_evidence up to its batch loop: returns at once when there is no
\* evidence record, else validates the table.
WriteEvidence(r) ==
    /\ pc[r] = "write_evidence"
    /\ \/ /\ batch_start' = [batch_start EXCEPT ![r] = 0]
          /\ Goto(r, IF Len(EvidenceRecords(r)) = 0 THEN "reg_completed"
                     ELSE IF use_merge THEN "evidence_merge" ELSE "evidence_delete")
          /\ UNCHANGED << exc, faults >>
       \/ /\ Len(EvidenceRecords(r)) > 0
          /\ CanFail
          /\ faults' = faults + 1
          /\ Raise(r, ProvisioningError, "handler")
          /\ UNCHANGED batch_start
    /\ UNCHANGED << Tables, Environment, JobAccess, PureCalls, accepted_at, ranking, client, summary, persisted, JobStore, ctx, inputs_list, results,
                    fetched, outcome, rows_written, History, writers,
                    run_registry, lock_held, registered, closed, io >>

\* _write_evidence_delete_insert, the DELETE of the batch's keys.
EvidenceDelete(r) ==
    /\ pc[r] = "evidence_delete"
    /\ \/ /\ evidence_table' = DeleteEvidence(evidence_table, EvidenceBatch(r))
          /\ StatementDone(r)
          /\ writers' = writers \cup {r}
          /\ Goto(r, "evidence_merge")
          /\ UNCHANGED << exc, faults >>
       \/ /\ StatementFails(r)
          /\ UNCHANGED << evidence_table, writers >>
    /\ UNCHANGED << decision_table, batch_start, rows_written, io, persisted >>
    /\ WriteFrame

\* _write_evidence_merge for one batch.
EvidenceMerge(r) ==
    /\ pc[r] = "evidence_merge"
    /\ \/ /\ evidence_table' = MergeEvidence(evidence_table, EvidenceBatch(r))
          /\ StatementDone(r)
          /\ writers' = writers \cup {r}
          /\ rows_written' = [rows_written EXCEPT ![r] = @ + Len(EvidenceBatch(r))]
          /\ persisted' = [persisted EXCEPT ![r].evidence = @ \cup
                 { EvidenceBatch(r)[i].evidence_id :
                   i \in 1..Len(EvidenceBatch(r)) }]
          /\ batch_start' = [batch_start EXCEPT ![r] = @ + BatchSize]
          /\ Goto(r, IF batch_start[r] + BatchSize >= Len(EvidenceRecords(r))
                     THEN "reg_completed"
                     ELSE IF use_merge THEN "evidence_merge" ELSE "evidence_delete")
          /\ UNCHANGED << exc, faults >>
       \/ /\ StatementFails(r)
          /\ UNCHANGED << evidence_table, writers, rows_written, batch_start,
                          persisted >>
    /\ UNCHANGED << decision_table, io >>
    /\ WriteFrame

(***************************************************************************)
(* Runner.run: the registry bookkeeping, the except and finally clauses.   *)
(***************************************************************************)
\* An UPDATE ... WHERE key of the run registry: changes the row if there is one.
UpdateRegistry(reg, key, status, error_type) ==
    IF reg[key].status = STATUS_ABSENT THEN reg
    ELSE [ reg EXCEPT ![key] = [ status |-> status, error_type |-> error_type ] ]

\* register_run_completed sets SUCCESS (the error columns are not in its SET
\* list).
CompletedUpdate(reg, key) ==
    UpdateRegistry(reg, key, STATUS_SUCCESS, reg[key].error_type)

\* register_run_failed with the status literal of register_run_completed.
FailedUpdateAsSuccess(reg, key, e) ==
    UpdateRegistry(reg, key, STATUS_SUCCESS, e)

\* register_run_failed sets FAILED and error_type = type(error).__name__
FailedUpdate(reg, key, e) ==
    UpdateRegistry(reg, key, STATUS_FAILED, e)

BookkeepingFrame ==
    UNCHANGED << Tables, Environment, JobAccess, PureCalls, accepted_at, ranking, client, summary, persisted, JobStore, Locals, outcome, rows_written,
                 History, writers, lock_held, registered >>

\* outputs_repo.register_run_completed: a failed UPDATE is logged, not raised.
RegisterRunCompleted(r) ==
    /\ pc[r] = "reg_completed"
    /\ DidIO(r, "registry")
    /\ \/ /\ run_registry' = CompletedUpdate(run_registry, RegistryKey(ctx[r]))
          /\ closed' = [closed EXCEPT ![r] = STATUS_SUCCESS]
          /\ UNCHANGED faults
       \/ /\ CanFail
          /\ faults' = faults + 1
          /\ UNCHANGED << run_registry, closed >>
    /\ Goto(r, "publish")
    /\ UNCHANGED exc
    /\ BookkeepingFrame

\* event_publisher.publish_decision_ready(ctx, summary); return summary
PublishDecisionReady(r) ==
    /\ pc[r] = "publish"
    /\ \/ /\ Goto(r, "finally")
          /\ UNCHANGED << exc, faults >>
       \/ /\ CanFail
          /\ faults' = faults + 1
          /\ Raise(r, PublishError, "handler")
    /\ UNCHANGED << run_registry, io, closed >>
    /\ BookkeepingFrame

\* except RunCancelledError / except Exception: both call
\* register_run_failed(ctx, started_at, e) and raise again.
HandleException(r) ==
    /\ pc[r] = "handler"
    /\ DidIO(r, "registry")
    /\ \/ /\ run_registry' = FailedUpdate(run_registry, RegistryKey(ctx[r]), exc[r])
          /\ closed' = [closed EXCEPT ![r] = STATUS_FAILED]
          /\ UNCHANGED faults
       \/ /\ CanFail
          /\ faults' = faults + 1
          /\ UNCHANGED << run_registry, closed >>
    /\ Goto(r, "finally")
    /\ UNCHANGED exc
    /\ BookkeepingFrame

\* A summary with the number of inputs as its emitted count.
SummaryCountsInputs(r) ==
    [ returned |-> TRUE, count |-> Len(inputs_list[r]),
      evaluated_count |-> Len(inputs_list[r]) ]

\* summary: "count" is len(filtered_results), "evaluated_count" is
\* len(inputs_list).
Summary(r) ==
    [ returned |-> TRUE, count |-> Len(FilteredResults(r)),
      evaluated_count |-> Len(inputs_list[r]) ]

\* finally: self.lock_manager.release(ctx); then the summary is returned or
\* the exception leaves Runner.run.
ReleaseLock(r) ==
    /\ pc[r] = "finally"
    /\ lock_held' = lock_held \ {r}
    /\ outcome' = [outcome EXCEPT ![r] = IF exc[r] = NoError THEN "returned" ELSE "raised"]
    /\ inputs_list' = [inputs_list EXCEPT ![r] = << >>]
    /\ results' = [results EXCEPT ![r] = << >>]
    /\ fetched' = [fetched EXCEPT ![r] = << >>]
    /\ batch_start' = [batch_start EXCEPT ![r] = 0]
    /\ summary' = [summary EXCEPT ![r] =
                     IF exc[r] = NoError THEN Summary(r) ELSE NoSummary]
    /\ Goto(r, "exit")
    /\ UNCHANGED << Tables, Environment, JobAccess, PureCalls, accepted_at, ranking, client, persisted, JobStore, ctx, rows_written,
                    History, writers, registered, closed, run_registry, exc, io, faults >>

(***************************************************************************)
(* main._run_job_in_background after Runner.run: complete_job, nothing on  *)
(* RunCancelledError, fail_job on any other exception.                     *)
(***************************************************************************)
CompleteJob(job) ==
    [ job EXCEPT !.status = "completed", !.has_completed_at = TRUE,
                 !.has_result = TRUE ]

FailJob(job, e) ==
    [ job EXCEPT !.status = "failed", !.has_completed_at = TRUE, !.error = e ]

\* _run_job_in_background without its except RunCancelledError clause.
JobAfterRunNoCancelClause(job, e) ==
    IF e = NoError THEN CompleteJob(job) ELSE FailJob(job, e)

JobAfterRun(job, e) ==
    IF e = NoError THEN CompleteJob(job)
    ELSE IF e = RunCancelledError THEN job
    ELSE FailJob(job, e)

FinishJob(r) ==
    /\ pc[r] = "exit"
    /\ jobs' = [jobs EXCEPT ![r] = JobAfterRun(@, exc[r])]
    /\ IF exc[r] = NoError
       THEN /\ snap' = [ valid |-> TRUE, ctx |-> ctx[r],
                         decisions |-> NonTime(decision_table),
                         evidence |-> NonTime(evidence_table) ]
            /\ writers' = {}
       ELSE UNCHANGED << snap, writers >>
    /\ Goto(r, "finished")
    /\ UNCHANGED << Tables, Environment, JobAccess, PureCalls, accepted_at, ranking, client, summary, persisted, cancellation_flags, Locals, outcome,
                    rows_written, clock, started_at, registered, closed,
                    run_registry, lock_held, exc, io, faults >>

(***************************************************************************)
(* Specifications.                                                         *)
(***************************************************************************)
Next ==
    \/ \E r \in slots : RunPrimitive(r)
    \/ \E r \in slots : CancelJob(r)
    \/ \E r \in slots : AcquireLock(r)
    \/ \E r \in slots : CheckPackReadiness(r)
    \/ \E r \in slots : GetConfig(r)
    \/ \E r \in slots : RegisterRunStarted(r)
    \/ \E r \in slots : ResolvePrimitive(r)
    \/ \E r \in slots : FetchInputs(r)
    \/ \E r \in slots : EvaluateNext(r)
    \/ \E r \in slots : WriteDecisions(r)
    \/ \E r \in slots : DecisionsDelete(r)
    \/ \E r \in slots : DecisionsMerge(r)
    \/ \E r \in slots : WriteEvidence(r)
    \/ \E r \in slots : EvidenceDelete(r)
    \/ \E r \in slots : EvidenceMerge(r)
    \/ \E r \in slots : RegisterRunCompleted(r)
    \/ \E r \in slots : PublishDecisionReady(r)
    \/ \E r \in slots : HandleException(r)
    \/ \E r \in slots : ReleaseLock(r)
    \/ \E r \in slots : FinishJob(r)

\* Runs one after the other on one worker, with failing calls.
Spec == Init /\ [][Next]_vars

\* The same, and also two workers whose runs interleave statement by
\* statement.
SpecConcurrent == (Init \/ InitConcurrent) /\ [][Next]_vars

(***************************************************************************)
(* Properties.                                                             *)
(***************************************************************************)
\* Runner.run has returned its summary or raised: control is with the caller.
Returned(r) == pc[r] \in {"exit", "finished"}

RegistryRecord(r) == run_registry[RegistryKey(ctx[r])]

\* C1: every run that acquired the lock has released it when control is
\* back with the caller, whatever step ended the run.
C1_LockReleasedOnEveryExit ==
    \A r \in RunSlots : Returned(r) => r \notin lock_held

C4_OneRowPerNaturalKey ==
    /\ \A t \in DOMAIN decision_table : decision_table[t] = 1
    /\ \A t, u \in DOMAIN decision_table :
           DecisionKey(t) = DecisionKey(u) => t = u

\* Two runs of the same primitive in DELETE+INSERT mode, both in the middle
\* of write_decisions, both having changed the table.
C4_Witness ==
    /\ ~use_merge
    /\ writers = RunSlots
    /\ ctx["r1"].primitive_name = ctx["r2"].primitive_name
    /\ pc["r1"] \in {"decisions_delete", "decisions_merge"}
    /\ pc["r2"] \in {"decisions_delete", "decisions_merge"}
    /\ batch_start["r1"] > 0
    /\ batch_start["r2"] > 0

\* C5: once the evaluator has raised on an input, the run is on its way
\* out with that error: the raising input is the last one evaluated, no
\* decision and no evidence write has been issued, and the caller gets the
\* error.
C5_EvaluatorErrorAbortsRun ==
    \A r \in RunSlots :
        /\ (\E i \in 1..Len(inputs_list[r]) : inputs_list[r][i].facts = EvalRaise) =>
              /\ pc[r] \in {"handler", "finally"}
              /\ exc[r] = EvaluatorError
              /\ inputs_list[r][Len(inputs_list[r])].facts = EvalRaise
              /\ Len(results[r]) = Len(inputs_list[r]) - 1
        /\ exc[r] = EvaluatorError =>
              /\ "write" \notin io[r]
              /\ rows_written[r] = 0
              /\ closed[r] # STATUS_SUCCESS
              /\ Returned(r) => outcome[r] = "raised"

\* The evaluator raised on the second input after the first gave a decision.
C5_Witness ==
    \E r \in RunSlots :
        /\ pc[r] = "finally"
        /\ exc[r] = EvaluatorError
        /\ Len(inputs_list[r]) = 2
        /\ results[r][1] # NoneResult

\* C6: no run-registry write (register_run_started, register_run_completed,
\* register_run_failed) changes the error the run is carrying: the call
\* returns and the run goes on as it would have.
C6_RegistryWriteNeverRaises ==
    [][\A r \in RunSlots :
          pc[r] \in {"reg_started", "reg_completed", "handler"} =>
              /\ exc'[r] = exc[r]
              /\ outcome'[r] # "raised"]_vars

\* C7: within one run the registry record, once it holds a terminal status
\* (SUCCESS or FAILED), is never changed again: the record leaves STARTED
\* once.
C7_TerminalStatusNeverChanged ==
    [][\A r \in RunSlots :
          ( /\ registered[r]
            /\ registered'[r]
            /\ RegistryRecord(r).status \in TerminalStatuses ) =>
              RegistryRecord(r)'.status = RegistryRecord(r).status]_vars

\* C8 as stated: a run aborted by the cancellation check raises the
\* cancellation error, its job is not 'failed', and its registry record is
\* not the FAILED of a failed run.
C8_CancelledNotRecordedAsFailed ==
    \A r \in RunSlots :
        (Returned(r) /\ exc[r] = RunCancelledError) =>
            /\ outcome[r] = "raised"
            /\ jobs[r].status # "failed"
            /\ RegistryRecord(r).status # STATUS_FAILED

\* C8 amended: a run aborted by the cancellation check raises the
\* cancellation error, its job stays 'cancelled' with no result and no
\* error, and the registry records it FAILED as it does a failed run, told
\* apart by error_type = RunCancelledError only.
C8_CancelledJobStaysCancelled ==
    \A r \in RunSlots :
        (Returned(r) /\ exc[r] = RunCancelledError) =>
            /\ outcome[r] = "raised"
            /\ jobs[r] = [ status |-> "cancelled", has_completed_at |-> TRUE,
                           has_result |-> FALSE, error |-> NoError ]
            /\ closed[r] = STATUS_FAILED =>
                   \/ RegistryRecord(r).status = STATUS_ABSENT
                   \/ RegistryRecord(r) = [ status |-> STATUS_FAILED,
                                            error_type |-> RunCancelledError ]

\* The background job of a cancelled run has finished, and the run's
\* registry record is FAILED.
C8_Witness ==
    \E r \in RunSlots :
        /\ pc[r] = "finished"
        /\ exc[r] = RunCancelledError
        /\ jobs[r].status = "cancelled"
        /\ RegistryRecord(r).status = STATUS_FAILED

Unregistered(r) ==
    /\ ctx[r] # NoContext
    /\ << ctx[r].primitive_name, ctx[r].primitive_version >> \notin RegisteredEvaluators

\* C9 as stated: a run of an unregistered (name, version) ends with the
\* version-mismatch error and never calls the fetch method.
C9_UnregisteredFailsWithMismatch ==
    \A r \in RunSlots :
        Unregistered(r) =>
            /\ "fetch" \notin io[r]
            /\ Returned(r) => exc[r] = PrimitiveVersionMismatch

\* C9 amended: a run of an unregistered (name, version) never calls the
\* fetch method, and it ends with the version-mismatch error unless the
\* readiness gate, the config lookup or the STARTED registry write raised
\* before the registry was consulted.
C9_UnregisteredNeverFetches ==
    \A r \in RunSlots :
        Unregistered(r) =>
            /\ "fetch" \notin io[r]
            /\ pc[r] \in {"idle", "acquire", "readiness", "config", "reg_started",
                          "resolve", "handler", "finally", "exit", "finished"}
            /\ pc[r] \in {"handler", "finally"} => exc[r] = PrimitiveVersionMismatch
            /\ Returned(r) =>
                   /\ outcome[r] = "raised"
                   /\ exc[r] \in {PrimitiveVersionMismatch, ReadinessFailError,
                                  ConfigError, ProvisioningError}

\* A run of an unregistered pair has raised the version-mismatch error.
C9_Witness ==
    \E r \in RunSlots :
        /\ Unregistered(r)
        /\ pc[r] = "exit"
        /\ outcome[r] = "raised"
        /\ exc[r] = PrimitiveVersionMismatch

RegisteredNames == { q[1] : q \in RegisteredEvaluators }

\* C11: when the registry rejects a run, a primitive name registered under
\* no version gives UnknownPrimitiveError and a name registered under other
\* versions only gives PrimitiveVersionMismatch.
C11_UnknownDistinctFromMismatch ==
    \A r \in RunSlots :
        (Unregistered(r) /\ pc[r] \in {"handler", "finally"}) =>
            exc[r] = IF ctx[r].primitive_name \in RegisteredNames
                     THEN PrimitiveVersionMismatch
                     ELSE UnknownPrimitiveError

\* C12: a run in which the readiness service reported FAIL (the gate then
\* publishes its readiness_failed event) is aborted with the gate's fatal
\* error before any input is fetched or evaluated, and the gate's error
\* ends no other run.
C12_ReadinessFailAborts ==
    \A r \in RunSlots :
        /\ "readiness_event" \in io[r] =>
              /\ Returned(r)
              /\ exc[r] = ReadinessFailError
              /\ "fetch" \notin io[r]
        /\ exc[r] = ReadinessFailError => "readiness_event" \in io[r]

(***************************************************************************)
(* The API process thread by thread: the background workers, the cancel    *)
(* endpoint and the status endpoint, one statement of JobManager and of    *)
(* main.get_job_status at a time.  Runner.run is reduced to its result.    *)
(***************************************************************************)
RunState == << Tables, run_registry, Environment, persisted, summary, client,
               ranking, PureCalls, accepted_at, lock_held, Locals, outcome,
               io, rows_written, registered, closed, started_at, faults,
               snap, writers >>

\* Two jobs over no inputs; the operator may cancel either.
InitJobStore ==
    /\ canonical_inputs = << >>
    /\ use_merge = TRUE
    /\ InitCommon
    /\ ranking = NoRanking
    /\ policy = NoCallMade
    /\ evaluation = NoCallMade
    /\ slots = RunSlots
    /\ request = [ r \in RunSlots |-> <<"operational_risk", "1.0.0">> ]
    /\ fault_budget = 0
    /\ operator_cancels = TRUE
    /\ enforce_readiness = FALSE
    /\ readiness_status = "PASS"

\* JobManager.register_job: a complete JobStatus is built and stored under
\* the lock by one assignment.
RegisterJob(r) ==
    /\ pc[r] = "idle"
    /\ jm_lock = "none"
    /\ clock < MaxStarts
    /\ jobs' = [jobs EXCEPT ![r] =
                  [ status |-> "running", has_completed_at |-> FALSE,
                    has_result |-> FALSE, error |-> NoError ]]
    /\ cancellation_flags' = [cancellation_flags EXCEPT ![r] = FALSE]
    /\ clock' = clock + 1
    /\ Goto(r, "job_running")
    /\ UNCHANGED << RunState, exc, jm_lock, canceller, poller, response >>

\* main._run_job_in_background, runner.run(ctx) returning or raising.  The
\* cancellation error needs is_cancelled to have read a set flag, which it
\* does under the lock.
RunJobInBackground(r) ==
    /\ pc[r] = "job_running"
    /\ \E e \in {NoError, EvaluatorError, RunCancelledError} :
          /\ e = RunCancelledError => (IsCancelled(r) /\ jm_lock = "none")
          /\ exc' = [exc EXCEPT ![r] = e]
          /\ Goto(r, IF e = NoError THEN "complete_job"
                     ELSE IF e = RunCancelledError THEN "job_done"
                     ELSE "fail_job")
    /\ UNCHANGED << RunState, JobStore, clock, JobAccess >>

\* JobManager.complete_job: the lock, then three assignments to the fields
\* of the stored JobStatus.
CompleteJobSteps(r) ==
    /\ \/ /\ pc[r] = "complete_job"
          /\ jm_lock = "none"
          /\ jm_lock' = r
          /\ Goto(r, "complete_status")
          /\ UNCHANGED jobs
       \/ /\ pc[r] = "complete_status"
          /\ jobs' = [jobs EXCEPT ![r].status = "completed"]
          /\ Goto(r, "complete_completed_at")
          /\ UNCHANGED jm_lock
       \/ /\ pc[r] = "complete_completed_at"
          /\ jobs' = [jobs EXCEPT ![r].has_completed_at = TRUE]
          /\ Goto(r, "complete_result")
          /\ UNCHANGED jm_lock
       \/ /\ pc[r] = "complete_result"
          /\ jobs' = [jobs EXCEPT ![r].has_result = TRUE]
          /\ jm_lock' = "none"
          /\ Goto(r, "job_done")
    /\ UNCHANGED << RunState, cancellation_flags, exc, clock, canceller,
                    poller, response >>

\* JobManager.fail_job, likewise.
FailJobSteps(r) ==
    /\ \/ /\ pc[r] = "fail_job"
          /\ jm_lock = "none"
          /\ jm_lock' = r
          /\ Goto(r, "fail_status")
          /\ UNCHANGED jobs
       \/ /\ pc[r] = "fail_status"
          /\ jobs' = [jobs EXCEPT ![r].status = "failed"]
          /\ Goto(r, "fail_completed_at")
          /\ UNCHANGED jm_lock
       \/ /\ pc[r] = "fail_completed_at"
          /\ jobs' = [jobs EXCEPT ![r].has_completed_at = TRUE]
          /\ Goto(r, "fail_error")
          /\ UNCHANGED jm_lock
       \/ /\ pc[r] = "fail_error"
          /\ jobs' = [jobs EXCEPT ![r].error = exc[r]]
          /\ jm_lock' = "none"
          /\ Goto(r, "job_done")
    /\ UNCHANGED << RunState, cancellation_flags, exc, clock, canceller,
                    poller, response >>

\* JobManager.cancel_job on a running job, called by the cancel endpoint:
\* the lock and the status test, flag.set(), then two assignments.
CancelJobSteps(r) ==
    /\ operator_cancels
    /\ \/ /\ canceller.at = "idle"
          /\ jm_lock = "none"
          /\ jobs[r].status = "running"
          /\ jm_lock' = "canceller"
          /\ canceller' = [ at |-> "flag", job |-> r ]
          /\ UNCHANGED JobStore
       \/ /\ canceller = [ at |-> "flag", job |-> r ]
          /\ cancellation_flags' = [cancellation_flags EXCEPT ![r] = TRUE]
          /\ canceller' = [canceller EXCEPT !.at = "status"]
          /\ UNCHANGED << jobs, jm_lock >>
       \/ /\ canceller = [ at |-> "status", job |-> r ]
          /\ jobs' = [jobs EXCEPT ![r].status = "cancelled"]
          /\ canceller' = [canceller EXCEPT !.at = "completed_at"]
          /\ UNCHANGED << cancellation_flags, jm_lock >>
       \/ /\ canceller = [ at |-> "completed_at", job |-> r ]
          /\ jobs' = [jobs EXCEPT ![r].has_completed_at = TRUE]
          /\ jm_lock' = "none"
          /\ canceller' = NoCaller
          /\ UNCHANGED cancellation_flags
    /\ UNCHANGED << RunState, pc, exc, clock, poller, response >>

\* JobManager.get_job_status, called by the status endpoint: under the lock
\* it returns the stored JobStatus itself, not a copy.
GetJobStatus(r) ==
    /\ poller.at \in {"idle", "returned"}
    /\ jm_lock = "none"
    /\ jobs[r].status # "absent"
    /\ poller' = [ at |-> "status", job |-> r ]
    /\ response' = NoJob
    /\ UNCHANGED << RunState, JobStore, pc, exc, clock, jm_lock, canceller >>

\* main.get_job_status after the call: the response is built from the
\* fields of that JobStatus, read one after the other.
BuildStatusResponse ==
    /\ \/ /\ poller.at = "status"
          /\ response' = [response EXCEPT !.status = jobs[poller.job].status]
          /\ poller' = [poller EXCEPT !.at = "completed_at"]
       \/ /\ poller.at = "completed_at"
          /\ response' = [response EXCEPT !.has_completed_at =
                                            jobs[poller.job].has_completed_at]
          /\ poller' = [poller EXCEPT !.at = "result"]
       \/ /\ poller.at = "result"
          /\ response' = [response EXCEPT !.has_result =
                                            jobs[poller.job].has_result]
          /\ poller' = [poller EXCEPT !.at = "error"]
       \/ /\ poller.at = "error"
          /\ response' = [response EXCEPT !.error = jobs[poller.job].error]
          /\ poller' = [poller EXCEPT !.at = "returned"]
    /\ UNCHANGED << RunState, JobStore, pc, exc, clock, jm_lock, canceller >>

NextJobStore ==
    \/ \E r \in slots : RegisterJob(r)
    \/ \E r \in slots : RunJobInBackground(r)
    \/ \E r \in slots : CompleteJobSteps(r)
    \/ \E r \in slots : FailJobSteps(r)
    \/ \E r \in slots : CancelJobSteps(r)
    \/ \E r \in slots : GetJobStatus(r)
    \/ BuildStatusResponse

\* The threads of the API process around the job store.
SpecJobStore == InitJobStore /\ [][NextJobStore]_vars

\* A JobStatus as it stands between two JobManager calls.
WholeRecord(job) ==
    /\ job.status = "running" =>
          ~job.has_completed_at /\ ~job.has_result /\ job.error = NoError
    /\ job.status = "completed" => job.has_completed_at /\ job.has_result
    /\ job.status = "failed" => job.has_completed_at /\ job.error # NoError
    /\ job.status = "cancelled" => job.has_completed_at

\* C13: the job store is read and written under the JobManager lock only,
\* so the response the status endpoint returns shows the record as it was
\* between two updates: never 'completed' without result and completed_at,
\* never 'failed' without error, never 'cancelled' without completed_at.
C13_PollerSeesWholeRecord ==
    poller.at = "returned" => WholeRecord(response)

\* C14: in DELETE+INSERT mode the DELETE of a batch removes only rows whose
\* natural key (for evidence rows the natural key and evidence_id) is the
\* key of a row of that batch: every other row of the table keeps its
\* number of copies.
C14_DeleteOnlyBatchKeys ==
    [][\A r \in RunSlots :
          /\ (pc[r] = "decisions_delete" /\ pc'[r] = "decisions_merge") =>
                \A t \in DOMAIN decision_table :
                    (\A i \in 1..Len(DecisionBatch(r)) :
                         DecisionKey(t) # DecisionKey(DecisionBatch(r)[i]))
                    => (t \in DOMAIN decision_table' /\ decision_table'[t] = decision_table[t])
          /\ (pc[r] = "evidence_delete" /\ pc'[r] = "evidence_merge") =>
                \A t \in DOMAIN evidence_table :
                    (\A i \in 1..Len(EvidenceBatch(r)) :
                         << DecisionKey(t), t.evidence_id >> #
                         << DecisionKey(EvidenceBatch(r)[i]),
                            EvidenceBatch(r)[i].evidence_id >>)
                    => (t \in DOMAIN evidence_table' /\ evidence_table'[t] = evidence_table[t])
      ]_vars

\* C15: evidence ids differ between evaluations that differ in primitive,
\* subject or as_of_ts, so the evidence upsert of a batch leaves in place
\* every evidence row of an evaluation other than those of the batch.
C15_UpsertKeepsOtherEvaluations ==
    [][\A r \in RunSlots :
          (pc[r] = "evidence_merge" /\ batch_start'[r] # batch_start[r]) =>
              \A t \in DOMAIN evidence_table :
                  (\A i \in 1..Len(EvidenceBatch(r)) :
                       << t.primitive_name, t.subject_id, t.as_of_ts >> #
                       << EvidenceBatch(r)[i].primitive_name,
                          EvidenceBatch(r)[i].subject_id,
                          EvidenceBatch(r)[i].as_of_ts >>)
                  => (t \in DOMAIN evidence_table'
                      /\ evidence_table'[t] = evidence_table[t])
      ]_vars

\* C16 as stated: whenever Runner.run has ended, with any outcome, every
\* evidence id referenced by a decision row the run wrote is the id of an
\* evidence row the run wrote.
C16_DecisionsNeverWithoutEvidence ==
    \A r \in RunSlots :
        Returned(r) => persisted[r].refs \subseteq persisted[r].evidence

\* C16 amended: decisions are written before evidence, by separate
\* statements.  Whenever Runner.run has ended without an exception, every
\* evidence id referenced by a decision row the run wrote is the id of an
\* evidence row the run wrote; decisions are left without their evidence
\* only by a run that a failed persistence call ended with that error.
C16_ReturnedRunWroteItsEvidence ==
    \A r \in RunSlots :
        Returned(r) =>
            \/ persisted[r].refs \subseteq persisted[r].evidence
            \/ exc[r] \in {StatementError, ProvisioningError}

\* A run that ended without exception having written two decision rows.
C16_Witness ==
    \E r \in RunSlots :
        /\ Returned(r)
        /\ exc[r] = NoError
        /\ Cardinality(persisted[r].refs) = 2

\* The evaluator gives no result for any of the inputs the repository holds.
AllNil == \A i \in 1..Len(canonical_inputs) : canonical_inputs[i].facts = EvalNone

\* C17: when the evaluator returns nil for every input, the run writes no
\* decision and no evidence row; it ends successfully unless a call failed,
\* the run was cancelled, readiness was refused or the primitive is not
\* registered; and the summary it returns has count 0 and evaluated_count
\* equal to the number of inputs fetched.
C17_AllNilRunSucceedsEmpty ==
    \A r \in RunSlots :
        (AllNil /\ Returned(r)) =>
            /\ rows_written[r] = 0
            /\ persisted[r] = NothingPersisted
            /\ outcome[r] = "returned" =>
                  summary[r] = [ returned |-> TRUE, count |-> 0,
                                 evaluated_count |-> Len(canonical_inputs) ]
            /\ ( /\ faults = 0
                 /\ ~cancellation_flags[r]
                 /\ readiness_status = "PASS"
                 /\ ~Unregistered(r) ) => outcome[r] = "returned"

\* A run over two inputs, both without result, that returned its summary.
C17_Witness ==
    \E r \in RunSlots :
        /\ AllNil
        /\ Len(canonical_inputs) = 2
        /\ Returned(r)
        /\ outcome[r] = "returned"
        /\ summary[r].returned

\* C18: while the outputs are written the lists of surviving decisions,
\* evidence sets and inputs have one length and the i-th result is the one
\* computed from the i-th surviving input; every stored row carries the
\* subject_id and as_of_ts of an input whose evaluation gave its content.
C18_RowsCarryTheirInput ==
    /\ \A r \in RunSlots :
          pc[r] \in {"write_decisions", "decisions_delete", "decisions_merge",
                     "write_evidence", "evidence_delete", "evidence_merge"} =>
              /\ Len(Decisions(r)) = Len(FilteredInputs(r))
              /\ Len(EvidenceSets(r)) = Len(FilteredInputs(r))
              /\ \A i \in 1..Len(FilteredInputs(r)) :
                    FilteredResults(r)[i] =
                        Evaluate(FilteredInputs(r)[i], started_at[r])
    /\ \A t \in DOMAIN decision_table :
          \E i \in 1..Len(canonical_inputs) :
              /\ canonical_inputs[i].subject_id = t.subject_id
              /\ canonical_inputs[i].as_of_ts = t.as_of_ts
              /\ canonical_inputs[i].facts = t.decision_state
              /\ t.evidence_refs = << EvidenceId(canonical_inputs[i]) >>
    /\ \A t \in DOMAIN evidence_table :
          \E i \in 1..Len(canonical_inputs) :
              /\ canonical_inputs[i].subject_id = t.subject_id
              /\ canonical_inputs[i].as_of_ts = t.as_of_ts
              /\ canonical_inputs[i].facts \in DecisionStates
              /\ t.evidence_id = EvidenceId(canonical_inputs[i])

\* The first of two inputs gave no result, the second a decision, and the
\* decision row of the second is stored.
C18_Witness ==
    \E r \in RunSlots :
        /\ pc[r] = "write_evidence"
        /\ Len(inputs_list[r]) = 2
        /\ results[r][1] = NoneResult
        /\ results[r][2] # NoneResult
        /\ \E t \in DOMAIN decision_table : t.subject_id = 2

(***************************************************************************)
(* The run with the attempts of the database client made visible.          *)
(***************************************************************************)
\* One worker and a registered primitive; statements may fail and be
\* retried, the operator may cancel.
InitRetry ==
    /\ InitCommon
    /\ ranking = NoRanking
    /\ policy = NoCallMade
    /\ evaluation = NoCallMade
    /\ slots = {"r1"}
    /\ request \in [RunSlots -> Requests \cap RegisteredEvaluators]
    /\ request["r2"] = request["r1"]
    /\ fault_budget = MaxFaults
    /\ operator_cancels = TRUE
    /\ enforce_readiness = FALSE
    /\ readiness_status = "PASS"

NextRetry ==
    \/ Next
    \/ \E r \in slots : ClientRetry(r)

SpecRetry == InitRetry /\ [][NextRetry]_vars

\* C19: a statement is attempted at most 3 times, the waits between the
\* attempts are 1s and then 2s, a success ends the attempts, and the run
\* sees a statement error only after the third attempt failed, the error
\* being that attempt's; attempts are repeated only while the client is
\* inside the statement, and no input is evaluated a second time.
C19_BoundedRetryInsideClient ==
    \A r \in RunSlots :
        /\ client[r].attempt <= 3
        /\ client[r].slept =
              SubSeq(<< 1, 2 >>, 1,
                     IF client[r].attempt < 2 THEN client[r].attempt ELSE 2)
        /\ client[r].attempt \in 1..2 => pc[r] \in StatementPcs
        /\ exc[r] = StatementError <=> client[r].attempt = 3
        /\ client[r].attempt = 3 => client[r].last_exception = 3
        /\ \A i, j \in 1..Len(inputs_list[r]) :
              i < j => inputs_list[r][i].subject_id # inputs_list[r][j].subject_id

\* A statement raised to the run after two retried attempts, both inputs
\* having been evaluated.
C19_Witness ==
    \E r \in RunSlots :
        /\ pc[r] = "handler"
        /\ exc[r] = StatementError
        /\ client[r].slept = << 1, 2 >>
        /\ Len(inputs_list[r]) = 2

(***************************************************************************)
(* activation_policy.ordering.stable_rank.                                 *)
(***************************************************************************)
\* ActivationItem: identifiers are numbered in their string order, 0 is a
\* gtin that is None or empty; metadata has the key ad_position or not.
ItemGroupIds == 1..2
Gtins == 0..1
Scores == 0..1
AdPositions == {1}
Metadatas == UNION { [D -> AdPositions] : D \in SUBSET {"ad_position"} }

ActivationItems ==
    [ item_group_id : ItemGroupIds, gtin : Gtins, score : Scores,
      metadata : Metadatas ]

\* float("inf"): above every ad_position.
Infinity == 1 + CHOOSE m \in AdPositions : \A a \in AdPositions : a <= m

\* sort_key(item) == (-score, ad_position or inf, gtin or item_group_id)
SortKey(item) ==
    << 0 - item.score,
       IF "ad_position" \in DOMAIN item.metadata
       THEN item.metadata["ad_position"] ELSE Infinity,
       IF item.gtin # 0 THEN item.gtin ELSE item.item_group_id >>

\* Tuples of numbers of one length, compared as Python compares tuples.
RECURSIVE TupleLess(_, _)
TupleLess(a, b) ==
    IF a = << >> THEN FALSE
    ELSE IF Head(a) # Head(b) THEN Head(a) < Head(b)
    ELSE TupleLess(Tail(a), Tail(b))

\* sorted(items, key = sort_key): a stable sort, an item goes behind the
\* items placed before it whose key is not greater.
RECURSIVE InsertByKey(_, _)
InsertByKey(sorted, item) ==
    IF sorted = << >> THEN << item >>
    ELSE IF TupleLess(SortKey(item), SortKey(Head(sorted)))
    THEN << item >> \o sorted
    ELSE << Head(sorted) >> \o InsertByKey(Tail(sorted), item)

RECURSIVE SortedFrom(_, _)
SortedFrom(sorted, items) ==
    IF items = << >> THEN sorted
    ELSE SortedFrom(InsertByKey(sorted, Head(items)), Tail(items))

stable_rank(items) == SortedFrom(<< >>, items)

Reorderings(n) ==
    { p \in [1..n -> 1..n] : \A i, j \in 1..n : p[i] = p[j] => i = j }

\* stable_rank is given a list of at most MaxItems distinct items, and the
\* same items in another order.
InitRank ==
    /\ canonical_inputs = << >>
    /\ use_merge = TRUE
    /\ slots = {"r1"}
    /\ request = [ r \in RunSlots |-> <<"operational_risk", "1.0.0">> ]
    /\ fault_budget = 0
    /\ operator_cancels = FALSE
    /\ enforce_readiness = FALSE
    /\ readiness_status = "PASS"
    /\ InitCommon
    /\ \E n \in 0..MaxItems :
          \E l \in [1..n -> ActivationItems] :
             \E p \in Reorderings(n) :
                /\ \A i, j \in 1..n : l[i] = l[j] => i = j
                /\ ranking = [ items |-> l,
                               reordered |-> [ i \in 1..n |-> l[p[i]] ],
                               ranked |-> << >>, ranked_reordered |-> << >>,
                               calls |-> 0 ]
    /\ policy = NoCallMade
    /\ evaluation = NoCallMade

RankFrame ==
    UNCHANGED << Tables, run_registry, Environment, JobAccess, PureCalls, accepted_at, summary,
                 client, persisted, JobStore, lock_held, pc, Locals, exc,
                 outcome, io, rows_written, registered, closed, History,
                 faults, writers >>

\* stable_rank(items)
RankItems ==
    /\ ranking.calls = 0
    /\ ranking' = [ranking EXCEPT !.ranked = stable_rank(ranking.items),
                                  !.calls = 1]
    /\ RankFrame

\* stable_rank of the same items given in the other order
RankReordered ==
    /\ ranking.calls = 1
    /\ ranking' = [ranking EXCEPT
                      !.ranked_reordered = stable_rank(ranking.reordered),
                      !.calls = 2]
    /\ RankFrame

NextRank ==
    \/ RankItems
    \/ RankReordered

SpecRank == InitRank /\ [][NextRank]_vars

\* C20: stable_rank gives the same sequence for a list and for any
\* permutation of it: the order of two items in the output depends on their
\* keys only, never on where they stood in the input.
C20_RankIgnoresInputOrder ==
    ranking.calls = 2 => ranking.ranked = ranking.ranked_reordered

(***************************************************************************)
(* The activation policy's pure functions, called on their own.            *)
(***************************************************************************)
\* Everything of a run stays as constructed while a domain function is
\* called on its own.
InitPure ==
    /\ canonical_inputs = << >>
    /\ use_merge = TRUE
    /\ slots = {"r1"}
    /\ request = [ r \in RunSlots |-> <<"operational_risk", "1.0.0">> ]
    /\ fault_budget = 0
    /\ operator_cancels = FALSE
    /\ enforce_readiness = FALSE
    /\ readiness_status = "PASS"
    /\ InitCommon
    /\ ranking = NoRanking

PolicyFrame ==
    UNCHANGED << Tables, run_registry, Environment, JobAccess, ranking,
                 accepted_at,
                 evaluation, summary, client, persisted, JobStore, lock_held,
                 pc, Locals, exc, outcome, io, rows_written, registered,
                 closed, History, faults, writers >>

\* ActivationItem as the policy sees it: category None is NoCategory, and
\* the metadata of a candidate is empty.
NoCategory == "None"
Categories == {NoCategory, "dairy", "produce"}
NoMetadata == [ k \in {} |-> << >> ]

PolicyItems ==
    [ item_group_id : ItemGroupIds, category : Categories, score : Scores,
      metadata : {NoMetadata} ]

\* The reasons the two exclusion helpers give by default.
Reasons == {"WEEKLY_AD_OVERLAP_EXCLUSION", "RECENT_PURCHASE_EXCLUSION"}

\* An exclusion check is a helper bound to a set of group ids and a reason.
ExclusionChecks == [ group_ids : SUBSET ItemGroupIds, reason : Reasons ]

\* The longest list of exclusion checks: one for each helper.
MaxChecks == Cardinality(Reasons)

\* exclude_if_in_set / exclude_if_recent_purchase
exclude_if_in_set(item, check) ==
    IF item.item_group_id \in check.group_ids
    THEN [ excluded |-> TRUE,  reasons |-> << check.reason >> ]
    ELSE [ excluded |-> FALSE, reasons |-> << >> ]

\* all_reasons after the loop over exclusion_checks: the reasons of each
\* check that excluded the item, appended in the order of the checks.
RECURSIVE all_reasons(_, _)
all_reasons(item, checks) ==
    IF checks = << >> THEN << >>
    ELSE LET result == exclude_if_in_set(item, Head(checks))
         IN  (IF result.excluded THEN result.reasons ELSE << >>)
             \o all_reasons(item, Tail(checks))

\* is_excluded after the loop, were it set only when every check excludes.
is_excluded_by_all(item, checks) ==
    \A i \in 1..Len(checks) : exclude_if_in_set(item, checks[i]).excluded

\* is_excluded after the loop over exclusion_checks
is_excluded(item, checks) ==
    \E i \in 1..Len(checks) : exclude_if_in_set(item, checks[i]).excluded

\* The copy of an excluded item, with excluded_reasons in its metadata.
excluded_item(item, checks) ==
    [ item EXCEPT !.metadata =
        [ k \in DOMAIN item.metadata \cup {"excluded_reasons"} |->
            IF k = "excluded_reasons" THEN all_reasons(item, checks)
            ELSE item.metadata[k] ] ]

\* How many times a reason occurs in a list of reasons.
RECURSIVE Occurrences(_, _)
Occurrences(reason, reasons) ==
    IF reasons = << >> THEN 0
    ELSE (IF Head(reasons) = reason THEN 1 ELSE 0)
         + Occurrences(reason, Tail(reasons))

\* Adding the counts of one item's reasons to reason_counts.
CountReasons(counts, reasons) ==
    [ reason \in DOMAIN counts \cup { reasons[i] : i \in 1..Len(reasons) } |->
        (IF reason \in DOMAIN counts THEN counts[reason] ELSE 0)
        + Occurrences(reason, reasons) ]

\* apply_exclusions(items, exclusion_checks)
RECURSIVE apply_exclusions(_, _)
apply_exclusions(items, checks) ==
    IF items = << >>
    THEN [ eligible |-> << >>, excluded |-> << >>,
           reason_counts |-> [ reason \in {} |-> 0 ] ]
    ELSE LET item == Head(items)
             rest == apply_exclusions(Tail(items), checks)
         IN  IF is_excluded(item, checks)
             THEN [ eligible |-> rest.eligible,
                    excluded |-> << excluded_item(item, checks) >>
                                 \o rest.excluded,
                    reason_counts |->
                        CountReasons(rest.reason_counts,
                                     all_reasons(item, checks)) ]
             ELSE [ rest EXCEPT !.eligible = << item >> \o rest.eligible ]

\* apply_exclusions is given at most MaxItems items and at most MaxChecks
\* checks.
InitExclusions ==
    /\ InitPure
    /\ evaluation = NoCallMade
    /\ \E n \in 0..MaxItems, m \in 0..MaxChecks :
          \E items \in [1..n -> PolicyItems] :
             \E checks \in [1..m -> ExclusionChecks] :
                policy = [ done |-> FALSE, items |-> items,
                           exclusion_checks |-> checks ]

\* eligible, excluded, reason_counts = apply_exclusions(items, checks)
ApplyExclusions ==
    /\ ~policy.done
    /\ LET result == apply_exclusions(policy.items, policy.exclusion_checks)
       IN  policy' = [ policy EXCEPT !.done = TRUE ] @@
                     [ eligible |-> result.eligible,
                       excluded |-> result.excluded,
                       reason_counts |-> result.reason_counts ]
    /\ PolicyFrame

NextExclusions == ApplyExclusions

SpecExclusions == InitExclusions /\ [][NextExclusions]_vars

\* An item with the metadata it had before apply_exclusions copied it.
WithoutReasons(item) ==
    [ item EXCEPT !.metadata =
        [ k \in DOMAIN item.metadata \ {"excluded_reasons"} |->
            item.metadata[k] ] ]

\* C21: apply_exclusions partitions its input.  The eligible list is the
\* input items that no check excluded, in input order; the excluded list is
\* the input items that at least one check excluded, in input order, each
\* as a copy that differs only by excluded_reasons; no item is in both, and
\* the two lengths add up to the length of the input.
C21_ExclusionsPartitionInput ==
    policy.done /\ "excluded" \in DOMAIN policy =>
        LET Hit(item) ==
                \E i \in 1..Len(policy.exclusion_checks) :
                    item.item_group_id
                        \in policy.exclusion_checks[i].group_ids
            Kept(item) == ~Hit(item)
            originals ==
                [ i \in 1..Len(policy.excluded) |->
                      WithoutReasons(policy.excluded[i]) ]
        IN  /\ policy.eligible = SelectSeq(policy.items, Kept)
            /\ originals = SelectSeq(policy.items, Hit)
            /\ Len(policy.eligible) + Len(policy.excluded)
                   = Len(policy.items)
            /\ \A i \in 1..Len(policy.eligible) :
                 \A j \in 1..Len(policy.excluded) :
                    policy.eligible[i] # policy.excluded[j]
            /\ \A j \in 1..Len(policy.excluded) :
                 "excluded_reasons" \in DOMAIN policy.excluded[j].metadata

\* An item was excluded by one check of two and another item by none.
C21_Witness ==
    /\ policy.done /\ "excluded" \in DOMAIN policy
    /\ Len(policy.exclusion_checks) = 2
    /\ Len(policy.eligible) = 1
    /\ Len(policy.excluded) = 1
    /\ Len(policy.excluded[1].metadata["excluded_reasons"]) = 1

\* C22: the excluded_reasons of every excluded item are exactly the union
\* of the reasons returned by the checks that matched it: the reason of
\* every matching check is there, no reason of a check that did not match
\* is there, and each reason appears once.
C22_ReasonsAreUnionOfMatches ==
    policy.done /\ "excluded" \in DOMAIN policy =>
        \A j \in 1..Len(policy.excluded) :
            LET item == policy.excluded[j]
                reasons == item.metadata["excluded_reasons"]
                matching ==
                    { i \in 1..Len(policy.exclusion_checks) :
                        item.item_group_id
                            \in policy.exclusion_checks[i].group_ids }
            IN  /\ { reasons[k] : k \in 1..Len(reasons) }
                     = { policy.exclusion_checks[i].reason : i \in matching }
                /\ \A k, l \in 1..Len(reasons) :
                      reasons[k] = reasons[l] => k = l

\* The caps given to apply_category_cap: a cap above the length of the
\* list caps nothing.
Caps == 0..MaxItems

\* category_counts.get(category, 0)
current_count(category_counts, category) ==
    IF category \in DOMAIN category_counts THEN category_counts[category]
    ELSE 0

\* The test of the elif branch, were the cap inclusive.
below_or_at_cap(count, cap) == count <= cap

\* The test of the elif branch: current_count < cap
below_cap(count, cap) == count < cap

\* The loop of apply_category_cap from some item on, with the counts so far.
RECURSIVE category_cap_loop(_, _, _)
category_cap_loop(items, cap, category_counts) ==
    IF items = << >> THEN << >>
    ELSE LET item == Head(items)
             category == item.category
             count == current_count(category_counts, category)
         IN  IF category = NoCategory
             THEN << item >>
                  \o category_cap_loop(Tail(items), cap, category_counts)
             ELSE IF below_cap(count, cap)
             THEN << item >>
                  \o category_cap_loop(
                        Tail(items), cap,
                        [ c \in DOMAIN category_counts \cup {category} |->
                            IF c = category THEN count + 1
                            ELSE category_counts[c] ])
             ELSE category_cap_loop(Tail(items), cap, category_counts)

\* apply_category_cap(items, cap)
apply_category_cap(items, cap) ==
    category_cap_loop(items, cap, [ c \in {} |-> 0 ])

\* apply_category_cap is given at most MaxItems items and a cap.
InitCategoryCap ==
    /\ InitPure
    /\ evaluation = NoCallMade
    /\ \E n \in 0..MaxItems, cap \in Caps :
          \E items \in [1..n -> PolicyItems] :
             policy = [ done |-> FALSE, items |-> items, cap |-> cap ]

\* result = apply_category_cap(items, cap)
ApplyCategoryCap ==
    /\ ~policy.done
    /\ policy' = [ policy EXCEPT !.done = TRUE ] @@
                 [ capped |-> apply_category_cap(policy.items, policy.cap) ]
    /\ PolicyFrame

NextCategoryCap == ApplyCategoryCap

SpecCategoryCap == InitCategoryCap /\ [][NextCategoryCap]_vars

\* C23: apply_category_cap returns the input items, in input order, that
\* have no category or are among the first cap items of their category:
\* every item without a category is kept and no category occurs more than
\* cap times in the result.
C23_CapKeepsFirstOfEachCategory ==
    policy.done /\ "capped" \in DOMAIN policy =>
        LET items == policy.items
            kept == { i \in 1..Len(items) :
                        \/ items[i].category = NoCategory
                        \/ Cardinality({ j \in 1..(i - 1) :
                              items[j].category = items[i].category })
                             < policy.cap }
            position(i) == Cardinality({ k \in kept : k <= i })
        IN  /\ Len(policy.capped) = Cardinality(kept)
            /\ \A i \in kept : policy.capped[position(i)] = items[i]
            /\ \A c \in Categories \ {NoCategory} :
                  Cardinality({ k \in 1..Len(policy.capped) :
                                  policy.capped[k].category = c })
                      <= policy.cap

\* A second item of a category was dropped at cap 1.
C23_Witness ==
    /\ policy.done /\ "capped" \in DOMAIN policy
    /\ policy.cap = 1
    /\ Len(policy.items) = 2
    /\ Len(policy.capped) = 1
    /\ policy.items[2].category = policy.items[1].category

\* A match rate is the exact fraction num / den; thresholds are in
\* hundredths (min_match_rate_for_high_confidence = 0.5 is 50).
Thresholds == {0, 50, 100}

\* compute_match_rate(items)
compute_match_rate(items) ==
    IF items = << >> THEN [ num |-> 0, den |-> 1 ]
    ELSE [ num |-> Cardinality({ i \in 1..Len(items) : items[i].score > 0 }),
           den |-> Len(items) ]

\* The test of the first elif, were it strict.
above_threshold(match_rate, threshold) ==
    match_rate.num * 100 > threshold * match_rate.den

\* match_rate >= config.min_match_rate_for_high_confidence
at_or_above_threshold(match_rate, threshold) ==
    match_rate.num * 100 >= threshold * match_rate.den

\* computed_confidence of build_policy_outcome
computed_confidence(selected_items, match_rate, threshold) ==
    IF selected_items = << >> THEN "LOW"
    ELSE IF at_or_above_threshold(match_rate, threshold) THEN "HIGH"
    ELSE IF match_rate.num > 0 THEN "MEDIUM"
    ELSE "LOW"

\* build_policy_outcome(selected_items, excluded_items, candidates_count,
\*                      match_rate, drivers, config)
build_policy_outcome(selected_items, excluded_items, candidates_count, match_rate, drivers, threshold) ==
    [ selected_items |-> selected_items,
      excluded_items |-> excluded_items,
      excluded_count |-> Len(excluded_items),
      candidates_count |-> candidates_count,
      match_rate |-> match_rate,
      drivers |-> drivers,
      computed_confidence |->
          computed_confidence(selected_items, match_rate, threshold) ]

\* The selection of at most MaxItems items and the configured threshold.
InitOutcome ==
    /\ InitPure
    /\ evaluation = NoCallMade
    /\ \E n \in 0..MaxItems, threshold \in Thresholds :
          \E items \in [1..n -> PolicyItems] :
             policy = [ done |-> FALSE, rated |-> FALSE,
                        selected_items |-> items,
                        min_match_rate_for_high_confidence |-> threshold ]

\* match_rate = compute_match_rate(final_selected)
ComputeMatchRate ==
    /\ ~policy.done /\ ~policy.rated
    /\ policy' = [ policy EXCEPT !.rated = TRUE ] @@
                 [ match_rate |-> compute_match_rate(policy.selected_items) ]
    /\ PolicyFrame

\* outcome = build_policy_outcome(...)
BuildPolicyOutcome ==
    /\ ~policy.done /\ policy.rated
    /\ policy' = [ policy EXCEPT !.done = TRUE ] @@
                 [ outcome |->
                     build_policy_outcome(
                         policy.selected_items, << >>,
                         Len(policy.selected_items), policy.match_rate,
                         << >>, policy.min_match_rate_for_high_confidence) ]
    /\ PolicyFrame

NextOutcome == ComputeMatchRate \/ BuildPolicyOutcome

SpecOutcome == InitOutcome /\ [][NextOutcome]_vars

\* C24 as stated: computed_confidence is LOW for an empty selection, HIGH
\* for a non-empty one with match_rate at or above the threshold, MEDIUM
\* with 0 < match_rate < threshold, and LOW whenever match_rate is 0, for
\* every threshold.
C24_ZeroMatchRateIsAlwaysLow ==
    policy.done /\ "outcome" \in DOMAIN policy =>
        LET out == policy.outcome
            rate == out.match_rate
            threshold == policy.min_match_rate_for_high_confidence
        IN  /\ out.selected_items = << >> => out.computed_confidence = "LOW"
            /\ out.selected_items # << >>
               /\ rate.num * 100 >= threshold * rate.den
               /\ rate.num > 0
                   => out.computed_confidence = "HIGH"
            /\ rate.num > 0 /\ rate.num * 100 < threshold * rate.den
                   => out.computed_confidence = "MEDIUM"
            /\ rate.num = 0 => out.computed_confidence = "LOW"

\* C24, amended: computed_confidence is LOW for an empty selection, HIGH
\* for a non-empty one with match_rate at or above the threshold (a
\* match_rate of 0 included when the threshold is 0), MEDIUM with
\* 0 < match_rate < threshold, and LOW when match_rate is 0 and the
\* threshold is above 0.
C24_ConfidenceByRuleOrder ==
    policy.done /\ "outcome" \in DOMAIN policy =>
        LET out == policy.outcome
            rate == out.match_rate
            threshold == policy.min_match_rate_for_high_confidence
        IN  /\ out.selected_items = << >> => out.computed_confidence = "LOW"
            /\ out.selected_items # << >>
               /\ rate.num * 100 >= threshold * rate.den
                   => out.computed_confidence = "HIGH"
            /\ rate.num > 0 /\ rate.num * 100 < threshold * rate.den
                   => out.computed_confidence = "MEDIUM"
            /\ rate.num = 0 /\ threshold > 0
                   => out.computed_confidence = "LOW"

\* A non-empty selection with match_rate exactly at a positive threshold.
C24_Witness ==
    /\ policy.done /\ "outcome" \in DOMAIN policy
    /\ Len(policy.outcome.selected_items) = 2
    /\ policy.outcome.match_rate = [ num |-> 1, den |-> 2 ]
    /\ policy.min_match_rate_for_high_confidence = 50
    /\ policy.outcome.computed_confidence = "HIGH"

(***************************************************************************)
(* The evaluators, called on their own.  An Optional value is << >> for    *)
(* None and << v >> for the value v.                                       *)
(***************************************************************************)
CONFIDENCE_HIGH == "HIGH"
CONFIDENCE_MEDIUM == "MEDIUM"
CONFIDENCE_LOW == "LOW"

None == << >>
Optional(S) == { None } \cup { << v >> : v \in S }

\* x or 0.0
OrZero(x) == IF x = None THEN 0 ELSE x[1]

EvaluationFrame ==
    UNCHANGED << Tables, run_registry, Environment, JobAccess, ranking,
                 accepted_at,
                 policy, summary, client, persisted, JobStore, lock_held,
                 pc, Locals, exc, outcome, io, rows_written, registered,
                 closed, History, faults, writers >>

\* evidence_id = f"evidence-{input_row.subject_id}"; the evaluators are
\* given the one subject "s1".
evidence_id_of(subject_id) == << "evidence", subject_id >>

(***************************************************************************)
(* order_line_fulfillment_risk                                             *)
(***************************************************************************)
Quantities == -1..2
OrderStatuses == {"OPEN", "closed", "CLOSED"}
closed_statuses == {"CLOSED", "CANCELLED"}

\* str.upper() on the order statuses
Upper(s) == IF s = "closed" THEN "CLOSED" ELSE s

OrderLineFulfillmentInputs ==
    [ subject_id : {"s1"},
      need_by_date : Optional({1}),
      open_quantity : Optional(Quantities),
      projected_available_quantity : Optional(Quantities),
      order_status : Optional(OrderStatuses),
      is_on_hold : Optional(BOOLEAN) ]

\* The rule chain, were the closed-status rule tried before the hold rule.
order_line_rule_closed_first(input_row) ==
    IF \/ input_row.need_by_date = None
       \/ input_row.open_quantity = None
       \/ input_row.projected_available_quantity = None
    THEN 1
    ELSE IF /\ input_row.order_status # None
            /\ Upper(input_row.order_status[1]) \in closed_statuses
    THEN 3
    ELSE IF input_row.is_on_hold = << TRUE >>
    THEN 2
    ELSE IF input_row.open_quantity # None /\ input_row.open_quantity[1] <= 0
    THEN 4
    ELSE IF /\ input_row.projected_available_quantity # None
            /\ input_row.open_quantity # None
            /\ input_row.projected_available_quantity[1]
                   < input_row.open_quantity[1]
    THEN 5
    ELSE 6

\* The number of the branch of the if / elif chain that is taken.
order_line_rule(input_row) ==
    IF \/ input_row.need_by_date = None
       \/ input_row.open_quantity = None
       \/ input_row.projected_available_quantity = None
    THEN 1
    ELSE IF input_row.is_on_hold = << TRUE >>
    THEN 2
    ELSE IF /\ input_row.order_status # None
            /\ Upper(input_row.order_status[1]) \in closed_statuses
    THEN 3
    ELSE IF input_row.open_quantity # None /\ input_row.open_quantity[1] <= 0
    THEN 4
    ELSE IF /\ input_row.projected_available_quantity # None
            /\ input_row.open_quantity # None
            /\ input_row.projected_available_quantity[1]
                   < input_row.open_quantity[1]
    THEN 5
    ELSE 6

\* max(open_quantity or 0.0 - projected_available_quantity or 0.0, 0.0)
ShortageOrZero(input_row) ==
    LET d == OrZero(input_row.open_quantity)
             - OrZero(input_row.projected_available_quantity)
    IN  IF d > 0 THEN d ELSE 0

\* What each branch assigns.
order_line_branch(input_row) ==
    LET rule == order_line_rule(input_row)
    IN  CASE rule = 1 ->
               [ decision_state |-> "UNKNOWN", confidence |-> CONFIDENCE_LOW,
                 drivers |-> << "MISSING_REQUIRED_INPUTS" >>,
                 applied_rule_id |->
                     "order_line_fulfillment_risk.unknown_missing_inputs",
                 shortage_quantity |-> 0 ]
          [] rule = 2 ->
               [ decision_state |-> "AT_RISK", confidence |-> CONFIDENCE_HIGH,
                 drivers |-> << "ON_HOLD" >>,
                 applied_rule_id |->
                     "order_line_fulfillment_risk.at_risk_on_hold",
                 shortage_quantity |-> ShortageOrZero(input_row) ]
          [] rule = 3 ->
               [ decision_state |-> "NOT_AT_RISK",
                 confidence |-> CONFIDENCE_HIGH,
                 drivers |-> << "NOT_OPEN" >>,
                 applied_rule_id |->
                     "order_line_fulfillment_risk.not_at_risk_not_open",
                 shortage_quantity |-> 0 ]
          [] rule = 4 ->
               [ decision_state |-> "NOT_AT_RISK",
                 confidence |-> CONFIDENCE_HIGH,
                 drivers |-> << "NO_OPEN_QTY" >>,
                 applied_rule_id |->
                     "order_line_fulfillment_risk.not_at_risk_no_open_qty",
                 shortage_quantity |-> 0 ]
          [] rule = 5 ->
               [ decision_state |-> "AT_RISK", confidence |-> CONFIDENCE_HIGH,
                 drivers |-> << "PROJECTED_SHORT" >>,
                 applied_rule_id |->
                     "order_line_fulfillment_risk.at_risk_projected_short",
                 shortage_quantity |->
                     input_row.open_quantity[1]
                         - input_row.projected_available_quantity[1] ]
          [] OTHER ->
               [ decision_state |-> "NOT_AT_RISK",
                 confidence |-> CONFIDENCE_HIGH,
                 drivers |-> << "SUFFICIENT_SUPPLY" >>,
                 applied_rule_id |->
                   "order_line_fulfillment_risk.not_at_risk_sufficient_supply",
                 shortage_quantity |-> ShortageOrZero(input_row) ]

\* evaluate_order_line_fulfillment_risk(input_row, config)
evaluate_order_line_fulfillment_risk(input_row) ==
    LET branch == order_line_branch(input_row)
        evidence_id == evidence_id_of(input_row.subject_id)
    IN  [ decision |->
            [ state |-> branch.decision_state,
              confidence |-> branch.confidence,
              drivers |-> branch.drivers,
              metrics |->
                [ open_quantity |-> OrZero(input_row.open_quantity),
                  projected_available_quantity |->
                      OrZero(input_row.projected_available_quantity),
                  shortage_quantity |-> branch.shortage_quantity ],
              evidence_refs |-> << evidence_id >> ],
          evidence_set |->
            << [ evidence_id |-> evidence_id,
                 rule_ids |-> << branch.applied_rule_id >> ] >> ]

\* The evaluator is given any order line.
InitOrderLine ==
    /\ InitPure
    /\ policy = NoCallMade
    /\ \E input_row \in OrderLineFulfillmentInputs :
          evaluation = [ done |-> FALSE,
                         primitive |-> "order_line_fulfillment_risk",
                         input_row |-> input_row ]

\* result = evaluate_order_line_fulfillment_risk(input_row, config)
EvaluateOrderLine ==
    /\ ~evaluation.done
    /\ evaluation.primitive = "order_line_fulfillment_risk"
    /\ evaluation' = [ evaluation EXCEPT !.done = TRUE ] @@
          [ result |->
              evaluate_order_line_fulfillment_risk(evaluation.input_row) ]
    /\ EvaluationFrame

NextOrderLine == EvaluateOrderLine

SpecOrderLine == InitOrderLine /\ [][NextOrderLine]_vars

\* C25: the order line is decided by the first rule that matches, in the
\* order missing input, on hold, closed status, no open quantity, projected
\* short, sufficient supply; a later rule never overrides an earlier one,
\* and the evidence carries the rule id of the rule that fired and no other.
C25_FirstMatchingRuleDecides ==
    evaluation.done
    /\ evaluation.primitive = "order_line_fulfillment_risk" =>
        LET row == evaluation.input_row
            state == evaluation.result.decision.state
            rule_ids == evaluation.result.evidence_set[1].rule_ids
            missing == \/ row.need_by_date = None
                       \/ row.open_quantity = None
                       \/ row.projected_available_quantity = None
            on_hold == row.is_on_hold = << TRUE >>
            is_closed == row.order_status
                             \in { << "closed" >>, << "CLOSED" >> }
            no_open == row.open_quantity[1] <= 0
            short == row.projected_available_quantity[1]
                         < row.open_quantity[1]
            Fired(s, id) == state = s /\ rule_ids = << id >>
        IN  /\ Len(evaluation.result.evidence_set) = 1
            /\ missing =>
                 Fired("UNKNOWN",
                       "order_line_fulfillment_risk.unknown_missing_inputs")
            /\ ~missing /\ on_hold =>
                 Fired("AT_RISK",
                       "order_line_fulfillment_risk.at_risk_on_hold")
            /\ ~missing /\ ~on_hold /\ is_closed =>
                 Fired("NOT_AT_RISK",
                       "order_line_fulfillment_risk.not_at_risk_not_open")
            /\ ~missing /\ ~on_hold /\ ~is_closed /\ no_open =>
                 Fired("NOT_AT_RISK",
                       "order_line_fulfillment_risk.not_at_risk_no_open_qty")
            /\ ~missing /\ ~on_hold /\ ~is_closed /\ ~no_open /\ short =>
                 Fired("AT_RISK",
                       "order_line_fulfillment_risk.at_risk_projected_short")
            /\ ~missing /\ ~on_hold /\ ~is_closed /\ ~no_open /\ ~short =>
                 Fired("NOT_AT_RISK",
                   "order_line_fulfillment_risk.not_at_risk_sufficient_supply")

\* An on-hold line with a closed status and no open quantity is AT_RISK.
C25_Witness ==
    /\ evaluation.done
    /\ evaluation.primitive = "order_line_fulfillment_risk"
    /\ evaluation.input_row.is_on_hold = << TRUE >>
    /\ evaluation.input_row.order_status = << "CLOSED" >>
    /\ evaluation.input_row.open_quantity = << 0 >>
    /\ evaluation.input_row.need_by_date # None
    /\ evaluation.input_row.projected_available_quantity # None
    /\ evaluation.result.decision.state = "AT_RISK"

(***************************************************************************)
(* shopper_health_classification                                           *)
(***************************************************************************)
\* The states the two source decisions can carry; "" is an empty value and
\* "OTHER" stands for every value the rules do not name.
RiskStates == {"", "AT_RISK", "NOT_AT_RISK", "UNKNOWN", "OTHER"}
TrendStates == {"", "DECLINING", "STABLE", "IMPROVING", "UNKNOWN", "OTHER"}

ShopperHealthInputs ==
    [ subject_id : {"s1"}, as_of_ts : {1},
      risk_state : Optional(RiskStates),
      trend_state : Optional(TrendStates),
      risk_source_as_of_ts : Optional({0}),
      trend_source_as_of_ts : Optional({0}) ]

\* input_row.risk_state or "UNKNOWN": None and "" are falsy
or_unknown(state) ==
    IF state = None \/ state = << "" >> THEN "UNKNOWN" ELSE state[1]

\* x if x else input_row.as_of_ts
or_as_of_ts(source_as_of_ts, as_of_ts) ==
    IF source_as_of_ts = None THEN as_of_ts ELSE source_as_of_ts[1]

\* The rule chain, were rule 5 to take every trend that is not DECLINING.
health_rule_healthy_unless_declining(risk_state, trend_state) ==
    IF risk_state = "AT_RISK" THEN 1
    ELSE IF risk_state = "UNKNOWN" /\ trend_state = "UNKNOWN" THEN 2
    ELSE IF risk_state = "NOT_AT_RISK" /\ trend_state = "DECLINING" THEN 3
    ELSE IF risk_state = "UNKNOWN" /\ trend_state = "DECLINING" THEN 4
    ELSE IF risk_state = "NOT_AT_RISK" THEN 5
    ELSE 6

\* The number of the branch of the if / elif chain that is taken.
health_rule(risk_state, trend_state) ==
    IF risk_state = "AT_RISK" THEN 1
    ELSE IF risk_state = "UNKNOWN" /\ trend_state = "UNKNOWN" THEN 2
    ELSE IF risk_state = "NOT_AT_RISK" /\ trend_state = "DECLINING" THEN 3
    ELSE IF risk_state = "UNKNOWN" /\ trend_state = "DECLINING" THEN 4
    ELSE IF /\ risk_state = "NOT_AT_RISK"
            /\ trend_state \in {"STABLE", "IMPROVING"} THEN 5
    ELSE 6

\* What each branch assigns.
health_branch(risk_state, trend_state) ==
    LET rule == health_rule(risk_state, trend_state)
    IN  CASE rule = 1 ->
               [ decision_state |-> "URGENT", confidence |-> CONFIDENCE_HIGH,
                 drivers |-> << "LAPSE_RISK" >>,
                 applied_rule_id |->
                     "shopper_health_classification.urgent_at_risk" ]
          [] rule = 2 ->
               [ decision_state |-> "UNKNOWN", confidence |-> CONFIDENCE_LOW,
                 drivers |-> << "INSUFFICIENT_SIGNALS" >>,
                 applied_rule_id |->
                  "shopper_health_classification.unknown_insufficient_signals" ]
          [] rule = 3 ->
               [ decision_state |-> "WATCHLIST",
                 confidence |-> CONFIDENCE_MEDIUM,
                 drivers |-> << "CADENCE_DECLINING" >>,
                 applied_rule_id |->
                     "shopper_health_classification.watchlist_declining" ]
          [] rule = 4 ->
               [ decision_state |-> "WATCHLIST",
                 confidence |-> CONFIDENCE_LOW,
                 drivers |-> << "CADENCE_DECLINING", "RISK_UNKNOWN" >>,
                 applied_rule_id |->
              "shopper_health_classification.watchlist_declining_risk_unknown" ]
          [] rule = 5 ->
               [ decision_state |-> "HEALTHY", confidence |-> CONFIDENCE_HIGH,
                 drivers |-> << "RISK_OK", "CADENCE_OK" >>,
                 applied_rule_id |->
                     "shopper_health_classification.healthy_ok" ]
          [] OTHER ->
               [ decision_state |-> "UNKNOWN",
                 confidence |-> CONFIDENCE_MEDIUM,
                 drivers |-> << "PARTIAL_SIGNALS" >>,
                 applied_rule_id |->
                   "shopper_health_classification.unknown_partial_signals" ]

\* source_primitives: one entry for each source state that is not None.
source_primitives(input_row) ==
    (IF input_row.risk_state # None
     THEN << [ primitive_name |-> "operational_risk",
               as_of_ts |-> or_as_of_ts(input_row.risk_source_as_of_ts,
                                        input_row.as_of_ts) ] >>
     ELSE << >>)
    \o
    (IF input_row.trend_state # None
     THEN << [ primitive_name |-> "shopper_frequency_trend",
               as_of_ts |-> or_as_of_ts(input_row.trend_source_as_of_ts,
                                        input_row.as_of_ts) ] >>
     ELSE << >>)

\* evaluate_shopper_health_classification(input_row, config)
evaluate_shopper_health_classification(input_row) ==
    LET risk_state == or_unknown(input_row.risk_state)
        trend_state == or_unknown(input_row.trend_state)
        branch == health_branch(risk_state, trend_state)
        evidence_id == evidence_id_of(input_row.subject_id)
    IN  [ decision |->
            [ state |-> branch.decision_state,
              confidence |-> branch.confidence,
              drivers |-> branch.drivers,
              metrics |-> [ risk_state |-> risk_state,
                            trend_state |-> trend_state ],
              evidence_refs |-> << evidence_id >> ],
          evidence_set |->
            << [ evidence_id |-> evidence_id,
                 rule_ids |-> << branch.applied_rule_id >>,
                 source_primitives |-> source_primitives(input_row) ] >> ]

\* The evaluator is given any pair of source states.
InitShopperHealth ==
    /\ InitPure
    /\ policy = NoCallMade
    /\ \E input_row \in ShopperHealthInputs :
          evaluation = [ done |-> FALSE,
                         primitive |-> "shopper_health_classification",
                         input_row |-> input_row ]

\* result = evaluate_shopper_health_classification(input_row, config)
EvaluateShopperHealth ==
    /\ ~evaluation.done
    /\ evaluation.primitive = "shopper_health_classification"
    /\ evaluation' = [ evaluation EXCEPT !.done = TRUE ] @@
          [ result |->
              evaluate_shopper_health_classification(evaluation.input_row) ]
    /\ EvaluationFrame

NextShopperHealth == EvaluateShopperHealth

SpecShopperHealth == InitShopperHealth /\ [][NextShopperHealth]_vars

\* C26: with a missing state read as UNKNOWN, risk AT_RISK gives URGENT;
\* both UNKNOWN gives UNKNOWN with LOW confidence; NOT_AT_RISK with DECLINING
\* gives WATCHLIST; UNKNOWN with DECLINING gives WATCHLIST with LOW
\* confidence; NOT_AT_RISK with STABLE or IMPROVING gives HEALTHY; every
\* other pair gives UNKNOWN with the driver PARTIAL_SIGNALS.
C26_HealthTruthTable ==
    evaluation.done
    /\ evaluation.primitive = "shopper_health_classification" =>
        LET Read(state) == IF state \in { None, << "" >> } THEN "UNKNOWN"
                           ELSE state[1]
            risk == Read(evaluation.input_row.risk_state)
            trend == Read(evaluation.input_row.trend_state)
            decision == evaluation.result.decision
            named ==
                \/ risk = "AT_RISK"
                \/ risk = "UNKNOWN" /\ trend \in {"UNKNOWN", "DECLINING"}
                \/ risk = "NOT_AT_RISK"
                   /\ trend \in {"DECLINING", "STABLE", "IMPROVING"}
        IN  /\ risk = "AT_RISK" => decision.state = "URGENT"
            /\ risk = "UNKNOWN" /\ trend = "UNKNOWN" =>
                  decision.state = "UNKNOWN" /\ decision.confidence = "LOW"
            /\ risk = "NOT_AT_RISK" /\ trend = "DECLINING" =>
                  decision.state = "WATCHLIST"
            /\ risk = "UNKNOWN" /\ trend = "DECLINING" =>
                  decision.state = "WATCHLIST" /\ decision.confidence = "LOW"
            /\ risk = "NOT_AT_RISK" /\ trend \in {"STABLE", "IMPROVING"} =>
                  decision.state = "HEALTHY"
            /\ ~named =>
                  /\ decision.state = "UNKNOWN"
                  /\ decision.drivers = << "PARTIAL_SIGNALS" >>

\* NOT_AT_RISK with an unknown trend is UNKNOWN by partial signals.
C26_Witness ==
    /\ evaluation.done
    /\ evaluation.primitive = "shopper_health_classification"
    /\ evaluation.input_row.risk_state = << "NOT_AT_RISK" >>
    /\ evaluation.input_row.trend_state = None
    /\ evaluation.result.decision.state = "UNKNOWN"
    /\ evaluation.result.decision.drivers = << "PARTIAL_SIGNALS" >>

(***************************************************************************)
(* shopper_weekly_ad_slate                                                 *)
(***************************************************************************)
\* ShopperAffinityRow.top_affinity_items: at most one entry for each item
\* group; shopper_affinity is None or << the list >>.
AffinityItems == [ item_group_id : ItemGroupIds, affinity_score : Scores ]

TopAffinityItems ==
    UNION { { l \in [1..n -> AffinityItems] :
                \A i, j \in 1..n :
                    l[i].item_group_id = l[j].item_group_id => i = j } :
            n \in 0..Cardinality(ItemGroupIds) }

ShopperAffinities == Optional(TopAffinityItems)

\* AdCandidate: the gtin of every candidate is None.
AdCandidates == [ item_group_id : ItemGroupIds, promo_price : Optional({1}) ]

\* slate_size_k, max_offers: nothing, one item, or more than there are.
SelectionSizes == {0, 1, 20}

\* category_cap: None or a cap of one.
CategoryCaps == Optional({1})

\* items[:k] for k >= 0
FirstItems(items, k) ==
    SubSeq(items, 1, IF k < Len(items) THEN k ELSE Len(items))

\* affinity_score_map: the scores of the first top_k entries by item group,
\* empty when there is no affinity row or its list is empty.
affinity_score_map(shopper_affinity, top_k) ==
    IF shopper_affinity = None THEN [ g \in {} |-> 0 ]
    ELSE LET entries == FirstItems(shopper_affinity[1], top_k)
         IN  [ g \in { entries[i].item_group_id : i \in 1..Len(entries) } |->
                 LET i == CHOOSE i \in 1..Len(entries) :
                              entries[i].item_group_id = g
                 IN  entries[i].affinity_score ]

\* affinity_score_map.get(match_key, {}).get("score", 0.0)
affinity_score(score_map, match_key) ==
    IF match_key \in DOMAIN score_map THEN score_map[match_key] ELSE 0

\* scored_candidates after the loop over input_row.candidates
RECURSIVE scored_candidates(_, _, _)
scored_candidates(candidates, score_map, recent_purchase_keys) ==
    IF candidates = << >> THEN << >>
    ELSE LET candidate == Head(candidates)
             score == affinity_score(score_map, candidate.item_group_id)
             rest == scored_candidates(Tail(candidates), score_map,
                                       recent_purchase_keys)
         IN  IF candidate.item_group_id \in recent_purchase_keys THEN rest
             ELSE << [ candidate |-> candidate, score |-> score,
                       reasons |-> << "IN_CURRENT_AD" >> \o
                                   (IF score > 0 THEN << "AFFINITY_MATCH" >>
                                    ELSE << >>) ] >> \o rest

\* sort_key(cws) == (-score, promo_price or inf, gtin or "")
slate_sort_key(cws) ==
    << 0 - cws.score,
       IF cws.candidate.promo_price = None THEN 2
       ELSE cws.candidate.promo_price[1],
       0 >>

\* scored_candidates.sort(key=sort_key): a stable sort
RECURSIVE InsertSlate(_, _)
InsertSlate(sorted, cws) ==
    IF sorted = << >> THEN << cws >>
    ELSE IF TupleLess(slate_sort_key(cws), slate_sort_key(Head(sorted)))
    THEN << cws >> \o sorted
    ELSE << Head(sorted) >> \o InsertSlate(Tail(sorted), cws)

RECURSIVE SortSlate(_, _)
SortSlate(sorted, items) ==
    IF items = << >> THEN sorted
    ELSE SortSlate(InsertSlate(sorted, Head(items)), Tail(items))

\* The category cap of the slate: every candidate has category None and is
\* counted in the bucket "unknown".
slate_category_cap(sorted, category_cap) ==
    IF category_cap # None /\ category_cap[1] > 0
    THEN FirstItems(sorted, category_cap[1])
    ELSE sorted

\* slate_items = scored_candidates[: config.slate_size_k]
slate_items(input_row, config) ==
    LET score_map == affinity_score_map(input_row.shopper_affinity, 20)
        scored == scored_candidates(input_row.candidates, score_map,
                                    input_row.recent_purchase_keys)
        sorted == SortSlate(<< >>, scored)
    IN  FirstItems(slate_category_cap(sorted, config.category_cap),
                   config.slate_size_k)

\* not slate_items and config.sparse_emission
slate_emits_nothing(items, config) ==
    items = << >> /\ config.sparse_emission

\* evidence_id = f"evidence-{input_row.subject_id}-weekly-ad-slate-v1"
slate_evidence_id(subject_id) ==
    << "evidence", subject_id, "weekly-ad-slate-v1" >>

\* The drivers of a slate, were they taken from the item signals only.
slate_drivers_from_signals(items_with_affinity, excluded_count) ==
    (IF items_with_affinity > 0 THEN << "AFFINITY_MATCH" >> ELSE << >>)
    \o (IF excluded_count > 0
        THEN << "RECENT_PURCHASE_EXCLUSIONS" >> ELSE << >>)

\* drivers of a non-empty slate
slate_drivers(items_with_affinity, excluded_count) ==
    << "IN_CURRENT_AD" >>
    \o (IF items_with_affinity > 0 THEN << "AFFINITY_MATCH" >> ELSE << >>)
    \o (IF excluded_count > 0
        THEN << "RECENT_PURCHASE_EXCLUSIONS" >> ELSE << >>)

\* evaluate_shopper_weekly_ad_slate(input_row, config)
evaluate_shopper_weekly_ad_slate(input_row, config) ==
    LET items == slate_items(input_row, config)
        excluded_count ==
            Cardinality({ i \in 1..Len(input_row.candidates) :
                            input_row.candidates[i].item_group_id
                                \in input_row.recent_purchase_keys })
        items_with_affinity ==
            Cardinality({ i \in 1..Len(items) : items[i].score > 0 })
        slate_size == Len(items)
        confidence ==
            IF slate_size > 0
            THEN IF items_with_affinity * 100
                      >= config.min_match_rate_for_high_confidence
                             * slate_size
                 THEN CONFIDENCE_HIGH ELSE CONFIDENCE_MEDIUM
            ELSE CONFIDENCE_MEDIUM
        drivers == slate_drivers(items_with_affinity, excluded_count)
        evidence_id == slate_evidence_id(input_row.subject_id)
    IN  IF slate_emits_nothing(items, config) THEN NoneResult
        ELSE [ decision |->
                 [ state |-> IF slate_size = 0 THEN "UNKNOWN"
                             ELSE "COMPUTED",
                   confidence |-> confidence,
                   drivers |-> IF slate_size = 0
                               THEN << "NO_ELIGIBLE_AD_ITEMS" >>
                               ELSE drivers,
                   metrics |->
                     [ excluded_count |-> excluded_count,
                       candidates_count |-> Len(input_row.candidates),
                       items |-> items ],
                   evidence_refs |-> << evidence_id >> ],
               evidence_set |->
                 << [ evidence_id |-> evidence_id,
                      rule_ids |->
                        << IF slate_size = 0
                           THEN "shopper_weekly_ad_slate.unknown_no_items"
                           ELSE "shopper_weekly_ad_slate.computed_slate" >>
                    ] >> ]

\* The evaluator is given at most MaxItems candidates, an affinity row or
\* none, the recent purchases and a config.
InitWeeklyAdSlate ==
    /\ InitPure
    /\ policy = NoCallMade
    /\ \E n \in 0..MaxItems, shopper_affinity \in ShopperAffinities,
          recent_purchase_keys \in SUBSET ItemGroupIds,
          slate_size_k \in SelectionSizes, category_cap \in CategoryCaps,
          threshold \in Thresholds, sparse_emission \in BOOLEAN :
          \E candidates \in [1..n -> AdCandidates] :
             evaluation =
                [ done |-> FALSE, primitive |-> "shopper_weekly_ad_slate",
                  input_row |->
                    [ subject_id |-> "s1", candidates |-> candidates,
                      shopper_affinity |-> shopper_affinity,
                      recent_purchase_keys |-> recent_purchase_keys ],
                  config |->
                    [ slate_size_k |-> slate_size_k,
                      category_cap |-> category_cap,
                      min_match_rate_for_high_confidence |-> threshold,
                      sparse_emission |-> sparse_emission ] ]

\* result = evaluate_shopper_weekly_ad_slate(input_row, config); the
\* selection is kept beside the result.
EvaluateWeeklyAdSlate ==
    /\ ~evaluation.done
    /\ evaluation.primitive = "shopper_weekly_ad_slate"
    /\ evaluation' = [ evaluation EXCEPT !.done = TRUE ] @@
          [ selection |-> slate_items(evaluation.input_row,
                                      evaluation.config),
            result |-> evaluate_shopper_weekly_ad_slate(
                           evaluation.input_row, evaluation.config) ]
    /\ EvaluationFrame

(***************************************************************************)
(* shopper_coupon_offer_set.  Its rules module is not in the source tree;  *)
(* the names it exports stand for themselves.                              *)
(***************************************************************************)
coupon_COMPUTED == "COMPUTED"
coupon_UNKNOWN == "UNKNOWN"
RULE_COMPUTED_OFFERS == "RULE_COMPUTED_OFFERS"
RULE_UNKNOWN_NO_OFFERS == "RULE_UNKNOWN_NO_OFFERS"
DRIVER_WEEKLY_AD_OVERLAP_EXCLUSION == "WEEKLY_AD_OVERLAP_EXCLUSION"
DRIVER_RECENT_PURCHASE_EXCLUSION == "RECENT_PURCHASE_EXCLUSION"
DRIVER_ELIGIBILITY_POLICY_ENFORCED == "DRIVER_ELIGIBILITY_POLICY_ENFORCED"
DRIVER_NOT_IN_WEEKLY_AD == "DRIVER_NOT_IN_WEEKLY_AD"
DRIVER_COUPON_DISCOUNT_APPLIED == "DRIVER_COUPON_DISCOUNT_APPLIED"
DRIVER_HIGH_AFFINITY == "DRIVER_HIGH_AFFINITY"

\* pricing_fallback_mode: "skip" or any other string
PricingFallbackModes == {"skip", "keep"}

\* affinity_top_k: one entry or more than there are
AffinityTopKs == {1, 50}

\* The baseline price of an item, in cents, and the discount in percent.
BaselinePrice == << 100 >>
discount_pct == 25

\* candidate_items: the affinity map's items sorted by score descending and
\* item group ascending.
RECURSIVE candidate_items(_)
candidate_items(score_map) ==
    IF DOMAIN score_map = {} THEN << >>
    ELSE LET first == CHOOSE g \in DOMAIN score_map :
                        \A h \in DOMAIN score_map :
                            \/ score_map[g] > score_map[h]
                            \/ score_map[g] = score_map[h] /\ g <= h
         IN  << << first, score_map[first] >> >>
             \o candidate_items(
                   [ g \in DOMAIN score_map \ {first} |-> score_map[g] ])

\* activation_items: an ActivationItem for each candidate in eligible_map,
\* with its baseline price or None in the metadata; gtin and category None.
coupon_activation_items(input_row, config) ==
    LET candidates == candidate_items(
                          affinity_score_map(input_row.shopper_affinity,
                                             config.affinity_top_k))
        Eligible(c) == c[1] \in input_row.eligible_map
        eligible == SelectSeq(candidates, Eligible)
    IN  [ i \in 1..Len(eligible) |->
            [ item_group_id |-> eligible[i][1], gtin |-> 0,
              category |-> NoCategory, score |-> eligible[i][2],
              metadata |->
                [ k \in {"baseline_price"} |->
                    IF eligible[i][1] \in input_row.baseline_prices
                    THEN BaselinePrice ELSE None ] ] ]

\* exclusion_checks of the coupon evaluator
coupon_exclusion_checks(input_row) ==
    << [ group_ids |-> input_row.weekly_ad_item_groups,
         reason |-> DRIVER_WEEKLY_AD_OVERLAP_EXCLUSION ],
       [ group_ids |-> input_row.recent_purchase_keys,
         reason |-> DRIVER_RECENT_PURCHASE_EXCLUSION ] >>

\* pricing_missing_items
pricing_missing(item, config) ==
    item.metadata["baseline_price"] = None
    /\ config.pricing_fallback_mode = "skip"

\* selected_activation_items: exclusions, pricing filter, stable_rank,
\* category cap, max_offers.
selected_activation_items(input_row, config) ==
    LET excluded == apply_exclusions(coupon_activation_items(input_row, config),
                                     coupon_exclusion_checks(input_row))
        Priced(item) == ~pricing_missing(item, config)
        ranked == stable_rank(SelectSeq(excluded.eligible, Priced))
        capped == IF config.category_cap # None /\ config.category_cap[1] > 0
                  THEN apply_category_cap(ranked, config.category_cap[1])
                  ELSE ranked
    IN  FirstItems(capped, config.max_offers)

\* all_excluded = excluded_after_exclusions + pricing_missing_items
all_excluded(input_row, config) ==
    LET excluded == apply_exclusions(coupon_activation_items(input_row, config),
                                     coupon_exclusion_checks(input_row))
        Missing(item) == pricing_missing(item, config)
    IN  excluded.excluded \o SelectSeq(excluded.eligible, Missing)

\* aggregate_drivers(selected, excluded)
aggregate_drivers(selected, excluded) ==
    << "ACTIVATION_POLICY_APPLIED" >>
    \o (IF \E i \in 1..Len(selected) : selected[i].score > 0
        THEN << "AFFINITY_MATCH" >> ELSE << >>)
    \o (IF excluded # << >> THEN << "EXCLUSIONS_APPLIED" >> ELSE << >>)

\* offers: a CouponOffer for each selected item that has a baseline price,
\* ranked by its position in the selection.
RECURSIVE coupon_offers(_, _)
coupon_offers(selected, rank) ==
    IF rank > Len(selected) THEN << >>
    ELSE LET item == selected[rank]
             baseline_price == item.metadata["baseline_price"]
         IN  (IF baseline_price = None THEN << >>
              ELSE << [ rank |-> rank,
                        item_group_id |-> item.item_group_id,
                        affinity_score |-> item.score,
                        baseline_price |-> baseline_price[1],
                        offer_price |->
                            (baseline_price[1] * (100 - discount_pct))
                                \div 100,
                        reasons |->
                            (IF item.score > 0
                             THEN << DRIVER_HIGH_AFFINITY >> ELSE << >>)
                            \o << DRIVER_NOT_IN_WEEKLY_AD,
                                  DRIVER_COUPON_DISCOUNT_APPLIED >> ] >>)
             \o coupon_offers(selected, rank + 1)

\* not offers and config.sparse_emission
coupon_emits_nothing(offers, config) ==
    offers = << >> /\ config.sparse_emission

\* evidence_id = f"evidence-{shopper_id}-coupon-offer-set-v1"
coupon_evidence_id(subject_id) ==
    << "evidence", subject_id, "coupon-offer-set-v1" >>

\* evaluate_shopper_coupon_offer_set(input_row, config)
evaluate_shopper_coupon_offer_set(input_row, config) ==
    LET selected == selected_activation_items(input_row, config)
        excluded == all_excluded(input_row, config)
        match_rate == compute_match_rate(selected)
        drivers == aggregate_drivers(selected, excluded)
                   \o << DRIVER_ELIGIBILITY_POLICY_ENFORCED,
                         DRIVER_NOT_IN_WEEKLY_AD,
                         DRIVER_COUPON_DISCOUNT_APPLIED >>
        confidence ==
            IF Len(selected) > 0
            THEN IF at_or_above_threshold(
                        match_rate, config.min_match_rate_for_high_confidence)
                 THEN CONFIDENCE_HIGH ELSE CONFIDENCE_MEDIUM
            ELSE CONFIDENCE_MEDIUM
        offers == coupon_offers(selected, 1)
        evidence_id == coupon_evidence_id(input_row.subject_id)
    IN  IF coupon_emits_nothing(offers, config) THEN NoneResult
        ELSE [ decision |->
                 [ state |-> IF offers # << >> THEN coupon_COMPUTED
                             ELSE coupon_UNKNOWN,
                   confidence |-> confidence,
                   drivers |-> drivers,
                   metrics |->
                     [ excluded_pricing_missing_count |->
                           Len(excluded)
                           - Cardinality({ i \in 1..Len(excluded) :
                                 "excluded_reasons"
                                     \in DOMAIN excluded[i].metadata }),
                       offers |-> offers ],
                   evidence_refs |-> << evidence_id >> ],
               evidence_set |->
                 << [ evidence_id |-> evidence_id,
                      rule_ids |->
                        << IF offers # << >> THEN RULE_COMPUTED_OFFERS
                           ELSE RULE_UNKNOWN_NO_OFFERS >> ] >> ]

\* The evaluator is given an affinity row or none, the eligible item
\* groups, the item groups with a baseline price, the two exclusion sets and
\* a config.
InitCouponOfferSet ==
    /\ InitPure
    /\ policy = NoCallMade
    /\ \E shopper_affinity \in ShopperAffinities,
          eligible_map \in SUBSET ItemGroupIds,
          baseline_prices \in SUBSET ItemGroupIds,
          weekly_ad_item_groups \in SUBSET {1},
          recent_purchase_keys \in SUBSET {2},
          max_offers \in SelectionSizes, category_cap \in CategoryCaps,
          threshold \in Thresholds, sparse_emission \in BOOLEAN,
          pricing_fallback_mode \in PricingFallbackModes,
          affinity_top_k \in AffinityTopKs :
             evaluation =
                [ done |-> FALSE, primitive |-> "shopper_coupon_offer_set",
                  input_row |->
                    [ subject_id |-> "s1",
                      shopper_affinity |-> shopper_affinity,
                      eligible_map |-> eligible_map,
                      baseline_prices |-> baseline_prices,
                      weekly_ad_item_groups |-> weekly_ad_item_groups,
                      recent_purchase_keys |-> recent_purchase_keys ],
                  config |->
                    [ max_offers |-> max_offers,
                      category_cap |-> category_cap,
                      min_match_rate_for_high_confidence |-> threshold,
                      sparse_emission |-> sparse_emission,
                      pricing_fallback_mode |-> pricing_fallback_mode,
                      affinity_top_k |-> affinity_top_k ] ]

\* result = evaluate_shopper_coupon_offer_set(input_row, config); the
\* policy selection is kept beside the result.
EvaluateCouponOfferSet ==
    /\ ~evaluation.done
    /\ evaluation.primitive = "shopper_coupon_offer_set"
    /\ evaluation' = [ evaluation EXCEPT !.done = TRUE ] @@
          [ selection |-> selected_activation_items(evaluation.input_row,
                                                    evaluation.config),
            result |-> evaluate_shopper_coupon_offer_set(
                           evaluation.input_row, evaluation.config) ]
    /\ EvaluationFrame

NextSelection == EvaluateWeeklyAdSlate \/ EvaluateCouponOfferSet

SpecSelection ==
    (InitWeeklyAdSlate \/ InitCouponOfferSet) /\ [][NextSelection]_vars

\* C28 as stated: a selection evaluator returns None exactly when sparse
\* emission is enabled and its policy selection is empty.
C28_NoneIffSparseAndEmptySelection ==
    evaluation.done /\ "selection" \in DOMAIN evaluation =>
        (evaluation.result = NoneResult
            <=> /\ evaluation.config.sparse_emission
                /\ evaluation.selection = << >>)

(***************************************************************************)
(* operational_risk.  Its rules module is not in the source tree; the      *)
(* names it exports stand for themselves.                                  *)
(***************************************************************************)
operational_AT_RISK == "AT_RISK"
operational_NOT_AT_RISK == "NOT_AT_RISK"
operational_UNKNOWN == "UNKNOWN"
RULE_ID_AT_RISK == "RULE_ID_AT_RISK"

\* Days, counted from some day 0; the run is as of day 2.
Days == 0..2
AtRiskDays == 1..2

OperationalRiskInputs ==
    [ subject_id : {"s1"}, as_of_ts : {2},
      last_trip_ts : Optional(Days),
      days_since_last_trip : Optional(Days) ]

\* days_since_last_trip or _compute_days_since(last_trip, as_of): None and
\* 0 are falsy
computed_days(input_row) ==
    IF input_row.days_since_last_trip \in { None, << 0 >> }
    THEN input_row.as_of_ts - input_row.last_trip_ts[1]
    ELSE input_row.days_since_last_trip[1]

\* evaluate_operational_risk(input_row, config)
evaluate_operational_risk(input_row, config) ==
    LET evidence_id == evidence_id_of(input_row.subject_id)
        known == input_row.last_trip_ts # None
    IN  [ decision |->
            [ state |-> IF ~known THEN operational_UNKNOWN
                        ELSE IF computed_days(input_row) >= config.at_risk_days
                        THEN operational_AT_RISK
                        ELSE operational_NOT_AT_RISK,
              confidence |-> IF known THEN CONFIDENCE_HIGH
                             ELSE CONFIDENCE_LOW,
              drivers |-> << "days_since_last_trip" >>,
              metrics |->
                [ days_since_last_trip |->
                    IF known
                    THEN (IF computed_days(input_row) = 0 THEN -1
                          ELSE computed_days(input_row))
                    ELSE (IF input_row.days_since_last_trip
                                \in { None, << 0 >> } THEN -1
                          ELSE input_row.days_since_last_trip[1]) ],
              evidence_refs |-> << evidence_id >> ],
          evidence_set |->
            << [ evidence_id |-> evidence_id,
                 rule_ids |-> << RULE_ID_AT_RISK >> ] >> ]

InitOperationalRisk ==
    /\ InitPure
    /\ policy = NoCallMade
    /\ \E input_row \in OperationalRiskInputs, at_risk_days \in AtRiskDays :
          evaluation = [ done |-> FALSE, primitive |-> "operational_risk",
                         input_row |-> input_row,
                         config |-> [ at_risk_days |-> at_risk_days ] ]

\* result = evaluate_operational_risk(input_row, config)
EvaluateOperationalRisk ==
    /\ ~evaluation.done
    /\ evaluation.primitive = "operational_risk"
    /\ evaluation' = [ evaluation EXCEPT !.done = TRUE ] @@
          [ result |-> evaluate_operational_risk(evaluation.input_row,
                                                 evaluation.config) ]
    /\ EvaluationFrame

(***************************************************************************)
(* shopper_frequency_trend, under its default config                       *)
(***************************************************************************)
min_baseline_trips == 4
max_reasonable_gap_days == 365
\* decline_ratio_threshold 1.5 and improve_ratio_threshold 0.75 as fractions
decline_ratio_threshold == << 3, 2 >>
improve_ratio_threshold == << 3, 4 >>

ShopperFrequencyInputs ==
    [ subject_id : {"s1"},
      last_trip_ts : Optional({1}),
      prev_trip_ts : Optional({0}),
      baseline_trip_count : Optional({3, 4}),
      baseline_avg_gap_days : Optional({0, 2}),
      recent_gap_days : Optional({1, 2, 3, 366}) ]

\* The number of the rule that decides, 6 to 8 for the three ratio classes.
frequency_rule(input_row) ==
    IF input_row.last_trip_ts = None \/ input_row.prev_trip_ts = None THEN 1
    ELSE IF \/ input_row.baseline_trip_count = None
            \/ input_row.baseline_trip_count[1] < min_baseline_trips THEN 2
    ELSE IF \/ input_row.baseline_avg_gap_days = None
            \/ input_row.baseline_avg_gap_days[1] <= 0 THEN 3
    ELSE IF input_row.recent_gap_days = None THEN 4
    ELSE IF input_row.recent_gap_days[1] > max_reasonable_gap_days THEN 5
    ELSE IF input_row.recent_gap_days[1] * decline_ratio_threshold[2]
               >= decline_ratio_threshold[1]
                      * input_row.baseline_avg_gap_days[1] THEN 6
    ELSE IF input_row.recent_gap_days[1] * improve_ratio_threshold[2]
               <= improve_ratio_threshold[1]
                      * input_row.baseline_avg_gap_days[1] THEN 7
    ELSE 8

\* decision_state and driver_code of each rule
frequency_branch(rule) ==
    CASE rule = 1 -> << "UNKNOWN",
                        "shopper_frequency_trend.insufficient_trip_history" >>
      [] rule = 2 -> << "UNKNOWN",
                        "shopper_frequency_trend.insufficient_baseline" >>
      [] rule = 3 -> << "UNKNOWN",
                        "shopper_frequency_trend.baseline_invalid" >>
      [] rule = 4 -> << "UNKNOWN",
                        "shopper_frequency_trend.recent_gap_missing" >>
      [] rule = 5 -> << "UNKNOWN",
                        "shopper_frequency_trend.recent_gap_out_of_range" >>
      [] rule = 6 -> << "DECLINING",
                        "shopper_frequency_trend.cadence_slowing" >>
      [] rule = 7 -> << "IMPROVING",
                        "shopper_frequency_trend.cadence_accelerating" >>
      [] OTHER    -> << "STABLE", "shopper_frequency_trend.cadence_stable" >>

\* evaluate_shopper_frequency_trend(input_row, config)
evaluate_shopper_frequency_trend(input_row) ==
    LET rule == frequency_rule(input_row)
        branch == frequency_branch(rule)
        evidence_id == evidence_id_of(input_row.subject_id)
    IN  [ decision |->
            [ state |-> branch[1],
              confidence |-> IF rule >= 6 THEN CONFIDENCE_HIGH
                             ELSE CONFIDENCE_LOW,
              drivers |-> << branch[2] >>,
              metrics |->
                [ recent_gap_days |-> input_row.recent_gap_days,
                  baseline_avg_gap_days |-> input_row.baseline_avg_gap_days,
                  baseline_trip_count |-> input_row.baseline_trip_count ],
              evidence_refs |-> << evidence_id >> ],
          evidence_set |->
            << [ evidence_id |-> evidence_id,
                 rule_ids |-> << branch[2] >> ] >> ]

InitShopperFrequency ==
    /\ InitPure
    /\ policy = NoCallMade
    /\ \E input_row \in ShopperFrequencyInputs :
          evaluation = [ done |-> FALSE,
                         primitive |-> "shopper_frequency_trend",
                         input_row |-> input_row ]

\* result = evaluate_shopper_frequency_trend(input_row, config)
EvaluateShopperFrequency ==
    /\ ~evaluation.done
    /\ evaluation.primitive = "shopper_frequency_trend"
    /\ evaluation' = [ evaluation EXCEPT !.done = TRUE ] @@
          [ result |-> evaluate_shopper_frequency_trend(evaluation.input_row) ]
    /\ EvaluationFrame

(***************************************************************************)
(* shopper_item_affinity_score                                             *)
(***************************************************************************)
ShopperItemAffinityInputs ==
    [ subject_id : {"s1"},
      top_affinity_items : Optional(TopAffinityItems),
      lookback_days : Optional({30}),
      top_k : Optional({10}) ]

\* evidence_id = f"evidence-{input_row.subject_id}-affinity-v1"
affinity_evidence_id(subject_id) == << "evidence", subject_id, "affinity-v1" >>

\* evaluate_shopper_item_affinity_score(input_row, config)
evaluate_shopper_item_affinity_score(input_row) ==
    LET top_items == IF input_row.top_affinity_items = None THEN << >>
                     ELSE input_row.top_affinity_items[1]
        evidence_id == affinity_evidence_id(input_row.subject_id)
    IN  [ decision |->
            [ state |-> IF top_items = << >> THEN "UNKNOWN" ELSE "COMPUTED",
              confidence |-> IF top_items = << >> THEN CONFIDENCE_LOW
                             ELSE CONFIDENCE_HIGH,
              drivers |-> IF top_items = << >>
                          THEN << "NO_AFFINITY_ITEMS" >>
                          ELSE << "TOP_AFFINITY_COMPUTED" >>,
              metrics |->
                [ lookback_days |-> IF input_row.lookback_days = None THEN 90
                                    ELSE input_row.lookback_days[1],
                  top_k |-> IF input_row.top_k = None THEN 50
                            ELSE input_row.top_k[1],
                  top_items |-> top_items ],
              evidence_refs |-> << evidence_id >> ],
          evidence_set |->
            << [ evidence_id |-> evidence_id,
                 rule_ids |->
                   << IF top_items = << >>
                      THEN "shopper_item_affinity_score.unknown_no_items"
                      ELSE "shopper_item_affinity_score.computed_has_items" >>
               ] >> ]

InitShopperItemAffinity ==
    /\ InitPure
    /\ policy = NoCallMade
    /\ \E input_row \in ShopperItemAffinityInputs :
          evaluation = [ done |-> FALSE,
                         primitive |-> "shopper_item_affinity_score",
                         input_row |-> input_row ]

\* result = evaluate_shopper_item_affinity_score(input_row, config)
EvaluateShopperItemAffinity ==
    /\ ~evaluation.done
    /\ evaluation.primitive = "shopper_item_affinity_score"
    /\ evaluation' = [ evaluation EXCEPT !.done = TRUE ] @@
          [ result |->
              evaluate_shopper_item_affinity_score(evaluation.input_row) ]
    /\ EvaluationFrame

(***************************************************************************)
(* order_fulfillment_risk                                                  *)
(***************************************************************************)
LineCounts == 0..2

OrderRiskInputs ==
    [ subject_id : {"s1"},
      order_line_count_total : LineCounts,
      order_line_count_at_risk : LineCounts,
      order_line_count_unknown : LineCounts,
      order_line_count_not_at_risk : LineCounts ]

\* decision_state, confidence, driver and rule id of the branch taken
order_risk_branch(input_row) ==
    IF input_row.order_line_count_total = 0
    THEN << "UNKNOWN", CONFIDENCE_LOW, "NO_LINES_FOUND",
            "order_fulfillment_risk.unknown_no_lines_found" >>
    ELSE IF input_row.order_line_count_at_risk > 0
    THEN << "AT_RISK", CONFIDENCE_HIGH, "HAS_AT_RISK_LINES",
            "order_fulfillment_risk.at_risk_has_at_risk_lines" >>
    ELSE IF input_row.order_line_count_unknown
                = input_row.order_line_count_total
    THEN << "UNKNOWN", CONFIDENCE_LOW, "ALL_LINES_UNKNOWN",
            "order_fulfillment_risk.unknown_all_lines_unknown" >>
    ELSE << "NOT_AT_RISK", CONFIDENCE_HIGH, "ALL_LINES_OK",
            "order_fulfillment_risk.not_at_risk_all_lines_ok" >>

\* evaluate_order_fulfillment_risk(input_row, config)
evaluate_order_fulfillment_risk(input_row) ==
    LET branch == order_risk_branch(input_row)
        evidence_id == evidence_id_of(input_row.subject_id)
    IN  [ decision |->
            [ state |-> branch[1], confidence |-> branch[2],
              drivers |-> << branch[3] >>,
              metrics |->
                [ order_line_count_total |-> input_row.order_line_count_total,
                  order_line_count_at_risk |->
                      input_row.order_line_count_at_risk,
                  order_line_count_unknown |->
                      input_row.order_line_count_unknown,
                  order_line_count_not_at_risk |->
                      input_row.order_line_count_not_at_risk ],
              evidence_refs |-> << evidence_id >> ],
          evidence_set |->
            << [ evidence_id |-> evidence_id,
                 rule_ids |-> << branch[4] >> ] >> ]

InitOrderRisk ==
    /\ InitPure
    /\ policy = NoCallMade
    /\ \E input_row \in OrderRiskInputs :
          evaluation = [ done |-> FALSE,
                         primitive |-> "order_fulfillment_risk",
                         input_row |-> input_row ]

\* result = evaluate_order_fulfillment_risk(input_row, config)
EvaluateOrderRisk ==
    /\ ~evaluation.done
    /\ evaluation.primitive = "order_fulfillment_risk"
    /\ evaluation' = [ evaluation EXCEPT !.done = TRUE ] @@
          [ result |-> evaluate_order_fulfillment_risk(evaluation.input_row) ]
    /\ EvaluationFrame

(***************************************************************************)
(* customer_order_impact_risk, under its default config                    *)
(***************************************************************************)
high_threshold == 5
medium_threshold == 2
OrderCounts == {0, 1, 2, 5}

CustomerImpactInputs ==
    [ subject_id : {"s1"},
      order_count_total : OrderCounts,
      order_count_at_risk : OrderCounts,
      order_count_unknown : OrderCounts ]

\* decision_state, confidence, driver and rule id of the branch taken
customer_impact_branch(input_row) ==
    IF input_row.order_count_total = 0
    THEN << "UNKNOWN", CONFIDENCE_LOW, "NO_ORDERS_FOUND",
            "customer_order_impact_risk.unknown_no_orders_found" >>
    ELSE IF input_row.order_count_at_risk >= high_threshold
    THEN << "HIGH_IMPACT", CONFIDENCE_HIGH, "HIGH_IMPACT",
            "customer_order_impact_risk.high_impact" >>
    ELSE IF input_row.order_count_at_risk >= medium_threshold
    THEN << "MEDIUM_IMPACT", CONFIDENCE_HIGH, "MEDIUM_IMPACT",
            "customer_order_impact_risk.medium_impact" >>
    ELSE IF input_row.order_count_at_risk > 0
    THEN << "LOW_IMPACT", CONFIDENCE_MEDIUM, "LOW_IMPACT",
            "customer_order_impact_risk.low_impact" >>
    ELSE IF input_row.order_count_unknown = input_row.order_count_total
    THEN << "UNKNOWN", CONFIDENCE_LOW, "ALL_ORDERS_UNKNOWN",
            "customer_order_impact_risk.unknown_all_orders_unknown" >>
    ELSE << "LOW_IMPACT", CONFIDENCE_MEDIUM, "NO_AT_RISK_ORDERS",
            "customer_order_impact_risk.low_impact_no_at_risk" >>

\* evaluate_customer_order_impact_risk(input_row, config)
evaluate_customer_order_impact_risk(input_row) ==
    LET branch == customer_impact_branch(input_row)
        evidence_id == evidence_id_of(input_row.subject_id)
    IN  [ decision |->
            [ state |-> branch[1], confidence |-> branch[2],
              drivers |-> << branch[3] >>,
              metrics |->
                [ order_count_total |-> input_row.order_count_total,
                  order_count_at_risk |-> input_row.order_count_at_risk,
                  order_count_unknown |-> input_row.order_count_unknown ],
              evidence_refs |-> << evidence_id >> ],
          evidence_set |->
            << [ evidence_id |-> evidence_id,
                 rule_ids |-> << branch[4] >> ] >> ]

InitCustomerImpact ==
    /\ InitPure
    /\ policy = NoCallMade
    /\ \E input_row \in CustomerImpactInputs :
          evaluation = [ done |-> FALSE,
                         primitive |-> "customer_order_impact_risk",
                         input_row |-> input_row ]

\* result = evaluate_customer_order_impact_risk(input_row, config)
EvaluateCustomerImpact ==
    /\ ~evaluation.done
    /\ evaluation.primitive = "customer_order_impact_risk"
    /\ evaluation' = [ evaluation EXCEPT !.done = TRUE ] @@
          [ result |->
              evaluate_customer_order_impact_risk(evaluation.input_row) ]
    /\ EvaluationFrame

(***************************************************************************)
(* Every registered evaluator.                                             *)
(***************************************************************************)
\* The decision states each primitive's rules module declares.
PrimitiveStates(primitive) ==
    CASE primitive = "operational_risk" ->
           { operational_AT_RISK, operational_NOT_AT_RISK,
             operational_UNKNOWN }
      [] primitive = "shopper_frequency_trend" ->
           {"DECLINING", "STABLE", "IMPROVING", "UNKNOWN"}
      [] primitive = "shopper_health_classification" ->
           {"URGENT", "WATCHLIST", "HEALTHY", "UNKNOWN"}
      [] primitive = "shopper_item_affinity_score" -> {"COMPUTED", "UNKNOWN"}
      [] primitive = "order_line_fulfillment_risk" ->
           {"AT_RISK", "NOT_AT_RISK", "UNKNOWN"}
      [] primitive = "order_fulfillment_risk" ->
           {"AT_RISK", "NOT_AT_RISK", "UNKNOWN"}
      [] primitive = "customer_order_impact_risk" ->
           {"HIGH_IMPACT", "MEDIUM_IMPACT", "LOW_IMPACT", "UNKNOWN"}
      [] primitive = "shopper_weekly_ad_slate" -> {"COMPUTED", "UNKNOWN"}
      [] primitive = "shopper_coupon_offer_set" ->
           { coupon_COMPUTED, coupon_UNKNOWN }

InitEvaluators ==
    \/ InitOperationalRisk
    \/ InitShopperFrequency
    \/ InitShopperHealth
    \/ InitShopperItemAffinity
    \/ InitOrderLine
    \/ InitOrderRisk
    \/ InitCustomerImpact
    \/ InitWeeklyAdSlate
    \/ InitCouponOfferSet

NextEvaluators ==
    \/ EvaluateOperationalRisk
    \/ EvaluateShopperFrequency
    \/ EvaluateShopperHealth
    \/ EvaluateShopperItemAffinity
    \/ EvaluateOrderLine
    \/ EvaluateOrderRisk
    \/ EvaluateCustomerImpact
    \/ EvaluateWeeklyAdSlate
    \/ EvaluateCouponOfferSet

SpecEvaluators == InitEvaluators /\ [][NextEvaluators]_vars

\* C27: every Decision a registered evaluator returns has a state of its
\* primitive's state set, at least one driver, and evidence_refs that are
\* not empty and name the evidence returned with the decision.
C27_DecisionShape ==
    evaluation.done /\ evaluation.result # NoneResult =>
        LET decision == evaluation.result.decision
            evidence_set == evaluation.result.evidence_set
        IN  /\ decision.state \in PrimitiveStates(evaluation.primitive)
            /\ decision.drivers # << >>
            /\ decision.evidence_refs # << >>
            /\ evidence_set # << >>
            /\ { decision.evidence_refs[i] :
                    i \in 1..Len(decision.evidence_refs) }
                 = { evidence_set[i].evidence_id :
                        i \in 1..Len(evidence_set) }

\* The weekly ad slate evaluator returned a decision for a slate whose
\* items have no affinity score, with no candidate excluded.
C27_Witness ==
    /\ evaluation.done
    /\ evaluation.primitive = "shopper_weekly_ad_slate"
    /\ evaluation.result # NoneResult
    /\ evaluation.result.decision.state = "COMPUTED"
    /\ evaluation.result.decision.drivers = << "IN_CURRENT_AD" >>

\* C29: once cancel_job has returned True for a job, the store keeps
\* reporting it 'cancelled', with no result and no error attached by a
\* later complete_job or fail_job of the background run.
C29_AcceptedCancelStaysCancelled ==
    \A r \in RunSlots :
        cancellation_flags[r] =>
            /\ jobs[r].status = "cancelled"
            /\ ~jobs[r].has_result
            /\ jobs[r].error = NoError

\* The positions of a run before its loop has ended: a cancellation
\* accepted there is accepted before the run starts writing decisions.
BeforeWriting ==
    {"acquire", "readiness", "config", "reg_started", "resolve", "fetch",
     "loop"}

\* C30 as stated: a run whose cancellation was accepted before it started
\* writing decisions writes no decision row and no evidence row, whatever
\* the number of inputs and whichever input was being evaluated.
C30_CancelBeforeWritingWritesNothing ==
    \A r \in RunSlots :
        accepted_at[r].pc \in BeforeWriting => rows_written[r] = 0

\* C30 amended: a run whose cancellation was accepted while its loop still
\* had an input to take writes no decision row and no evidence row, and
\* once it has returned it has raised the cancellation error unless another
\* error came first.
C30_CancelBeforeAnInputIsTakenWritesNothing ==
    \A r \in RunSlots :
        ( /\ accepted_at[r].pc \in BeforeWriting
          /\ accepted_at[r].checked < Len(canonical_inputs) ) =>
            /\ rows_written[r] = 0
            /\ pc[r] \notin {"write_decisions", "decisions_delete",
                              "decisions_merge", "write_evidence",
                              "evidence_delete", "evidence_merge",
                              "reg_completed", "publish"}
            /\ Returned(r) => exc[r] # NoError

\* A run over two inputs was cancelled after its loop had taken the first
\* input and has returned with the cancellation error, nothing written.
C30_Witness ==
    \E r \in RunSlots :
        /\ accepted_at[r].pc = "loop"
        /\ accepted_at[r].checked = 1
        /\ Len(canonical_inputs) = 2
        /\ Returned(r)
        /\ exc[r] = RunCancelledError
        /\ rows_written[r] = 0

====
